---- MODULE Spec2Model ----
(***************************************************************************)
(* Model of the katal request-dispatch pipeline:                           *)
(*   core/Router.ts            route registration, groups, matching,       *)
(*                             Router.handle                               *)
(*   core/MiddlewareManager.ts global / named before and after chains      *)
(*   core/Application.ts       the fetch callback (top-level dispatch)     *)
(*   http/Controller.ts        Controller.execute                          *)
(*   validation/Validator.ts   Validator.validate and its rule checks      *)
(*   core/Container.ts         bindings, singleton and transient resolve   *)
(*                                                                         *)
(* Strings that hold paths are kept in "split form": the sequence that     *)
(* String.prototype.split("/") yields.  A string without its separators    *)
(* and its split form determine each other, so "/" is <<"", "">>, the      *)
(* empty string is <<"">> and "/api/v1" is <<"", "api", "v1">>; a + "/" + b *)
(* is the concatenation of the two split forms.                            *)
(***************************************************************************)
EXTENDS Integers, Sequences, FiniteSets, TLC

VARIABLES
    routes,            \* Router.routes
    prefix,            \* Router.prefix
    groupOptions,      \* Router.groupOptions
    groupStack,        \* activation records of the running Router.group calls
    regLog,            \* history: arguments and enclosing groups of each registration
    calls,             \* history: number of registration-surface calls made
    globalMiddleware,  \* MiddlewareManager.globalMiddleware
    namedMiddleware,   \* MiddlewareManager.namedMiddleware
    pc,                \* position of the request in flight
    req,               \* the request in flight
    idx,               \* loop index of the middleware loop being run
    route,             \* Router.handle: const route
    context,           \* Router.handle: const context
    cur,               \* the value being threaded (result / response / currentResponse)
    routerResult,      \* what Router.handle returned to the fetch callback
    result,            \* what the fetch callback returned to the client
    trace,             \* history: hooks and phases run for the request in flight
    bindings,          \* Container.bindings
    containerLog,      \* history: the calls made on the container and their outcomes
    validatorInput,    \* the (data, schema) pair handed to Validator.validate
    validatorOutput,   \* what Validator.validate returned for it
    logger,            \* LoggingIntegration: destinations and minLevel
    logCall,           \* the call of LoggingIntegration.log being made, with its history
    rateLimit,         \* createRateLimitMiddleware: windowMs and maxRequests
    clients,           \* createRateLimitMiddleware: const clients
    now,               \* the clock Date.now() reads
    waiting,           \* requests fetched whose rate-limit before hook has not run yet
    rateLog,           \* history: the runs of the rate-limit before hook, in order
    controllers,       \* the controller instances created so far
    inFlight,          \* position of each request being handled by a controller
    contextReads       \* history: what each controller hook read from this.context

routerVars == <<routes, prefix, groupOptions, groupStack, regLog, calls>>
managerVars == <<globalMiddleware, namedMiddleware>>
requestVars == <<pc, req, idx, route, context, cur, routerResult, result, trace>>
containerVars == <<bindings, containerLog>>
validatorVars == <<validatorInput, validatorOutput>>
loggerVars == <<logger, logCall>>
rateVars == <<rateLimit, clients, now, waiting, rateLog>>
instanceVars == <<controllers, inFlight, contextReads>>
extraVars == <<loggerVars, rateVars, instanceVars>>
serviceVars == <<containerVars, validatorVars, extraVars>>
vars == <<routes, prefix, groupOptions, groupStack, regLog, calls,
          globalMiddleware, namedMiddleware,
          pc, req, idx, route, context, cur, routerResult, result, trace,
          bindings, containerLog, validatorInput, validatorOutput,
          logger, logCall,
          rateLimit, clients, now, waiting, rateLog,
          controllers, inFlight, contextReads>>

(***************************************************************************)
(* Bounds                                                                  *)
(***************************************************************************)
MaxCalls == 3          \* registration-surface calls (route registrations + group calls)
MaxGlobal == 2         \* global middleware added
MaxContainerOps == 4   \* calls made on the container
MaxItems == 2          \* elements of an array handed to validate
MaxValidations == 2    \* calls of validate on one schema object
MaxSegments == 3       \* segments of a path handed to the router
MaxDestinations == 3   \* destinations added to a logger
MaxClock == 4          \* milliseconds the clock advances
MaxRateRequests == 4   \* requests that reach the rate-limit middleware
MaxInFlight == 3       \* requests handled by controllers at the same time

(***************************************************************************)
(* Paths                                                                   *)
(***************************************************************************)
EmptyString == <<"">>
Root == <<"", "">>

\* a segment written :name (a colon followed by word characters)
ParamSegments == {":id", ":name"}

IsParam(seg) == seg \in ParamSegments

\* a + "/" + b on split forms
SlashConcat(a, b) == a \o b

NonEmptySegment(segment) == segment # ""

\* fault: empty segments are kept
normalizePath_KeepsEmpty(path) ==
    IF path = Root THEN Root ELSE <<"">> \o path

normalizePath(path) ==
    IF path = Root THEN Root
    ELSE LET segments == SelectSeq(path, NonEmptySegment)
         IN  IF segments = <<>> THEN Root ELSE <<"">> \o segments

\* the compiled pattern, one matcher per segment of the path
pathToRegex(path) ==
    [i \in 1..Len(path) |->
        IF IsParam(path[i]) THEN [kind |-> "capture", text |-> ""]
                            ELSE [kind |-> "literal", text |-> path[i]]]

\* the segments the text of a literal segment matches once it is the source
\* of a regular expression: the text is copied unescaped, so "." stands for
\* any one character (of the segments in use "v1.0" matches "v1x0" too)
SourceMatches(text) ==
    IF text = "v1.0" THEN {"v1.0", "v1x0"} ELSE {text}

\* one matcher against one segment: ([^/]+) needs one character or more
SegmentTest(matcher, seg) ==
    IF matcher.kind = "capture" THEN seg # "" ELSE seg \in SourceMatches(matcher.text)

\* pattern.test(path) for the anchored pattern ^...$
PatternTest(pattern, path) ==
    /\ Len(pattern) = Len(path)
    /\ \A i \in 1..Len(pattern) : SegmentTest(pattern[i], path[i])

(***************************************************************************)
(* Route options                                                           *)
(***************************************************************************)
NoSchema == "undefined"

\* options === undefined
NoOptions == [def |-> FALSE, mwDef |-> FALSE, middleware |-> <<>>, validation |-> NoSchema]

\* {middleware: mw}, {validation: v} or both
Options(mwDef, mw, v) ==
    [def |-> TRUE, mwDef |-> mwDef, middleware |-> mw, validation |-> v]

\* options?.middleware ?? []
MiddlewareOf(options) ==
    IF options.def /\ options.mwDef THEN options.middleware ELSE <<>>

\* options?.validation
ValidationOf(options) ==
    IF options.def THEN options.validation ELSE NoSchema

\* fault: the route's own list comes first
mergedMiddleware_RouteFirst(gOptions, options) ==
    MiddlewareOf(options) \o MiddlewareOf(gOptions)

mergedMiddleware(gOptions, options) ==
    MiddlewareOf(gOptions) \o MiddlewareOf(options)

mergedValidation(gOptions, options) ==
    IF ValidationOf(options) # NoSchema THEN ValidationOf(options)
    ELSE ValidationOf(gOptions)

\* this.prefix ? normalizePath(this.prefix + "/" + path) : normalizePath(path)
PrefixedPath(pfx, path) ==
    IF pfx # EmptyString THEN normalizePath(SlashConcat(pfx, path))
    ELSE normalizePath(path)

\* fault: the new route is put in front of the earlier ones
addRoute_Prepends(rs, method, path, handler, middleware) ==
    LET normalizedPath == normalizePath(path)
    IN  <<[method |-> method,
           path |-> normalizedPath,
           handler |-> handler,
           middleware |-> middleware,
           pattern |-> pathToRegex(normalizedPath)]>> \o rs

\* the RouteDefinition pushed by addRoute; handler is the closure built by
\* registerController, which captures the merged schema and the class
addRoute(rs, method, path, handler, middleware) ==
    LET normalizedPath == normalizePath(path)
    IN  Append(rs, [method |-> method,
                    path |-> normalizedPath,
                    handler |-> handler,
                    middleware |-> middleware,
                    pattern |-> pathToRegex(normalizedPath)])

registerController(rs, pfx, gOptions, method, path, ControllerClass, options) ==
    LET fullPath == PrefixedPath(pfx, path)
        handler == [validation |-> mergedValidation(gOptions, options),
                    ControllerClass |-> ControllerClass]
    IN  addRoute(rs, method, fullPath, handler, mergedMiddleware(gOptions, options))

\* fault: the last matching route is returned instead of the first
findRouteIndex_Last(rs, method, path) ==
    LET hits == {i \in 1..Len(rs) :
                    rs[i].method = method /\ PatternTest(rs[i].pattern, path)}
    IN  IF hits = {} THEN 0
        ELSE CHOOSE i \in hits : \A j \in hits : i >= j

\* index of the route Array.prototype.find returns, 0 when there is none
findRouteIndex(rs, method, path) ==
    LET hits == {i \in 1..Len(rs) :
                    rs[i].method = method /\ PatternTest(rs[i].pattern, path)}
    IN  IF hits = {} THEN 0
        ELSE CHOOSE i \in hits : \A j \in hits : i <= j

(***************************************************************************)
(* Inputs of the registration surface                                      *)
(***************************************************************************)
Methods == {"GET", "POST"}

ControllerClasses == {"Plain", "Hooked"}

\* the class defines beforeHandle / afterHandle
HasBeforeHandle(ControllerClass) == ControllerClass = "Hooked"
HasAfterHandle(ControllerClass) == ControllerClass = "Hooked"

\* the schema property of the class: Hooked declares
\* protected schema = {role: {type: "string", required: true}}
SchemaProperty(ControllerClass) ==
    IF ControllerClass = "Hooked" THEN "S2" ELSE NoSchema

\* "/users" and ":id"
RoutePaths == {<<"", "users">>, <<":id">>}

\* "/api" and "v1/"
GroupPrefixes == {<<"", "api">>, <<"v1", "">>}

\* undefined, {middleware:["a"], validation:S1}, {middleware:["b"]},
\* {middleware:["c"], validation:S2}
OptionValues ==
    {NoOptions, Options(TRUE, <<"a">>, "S1"), Options(TRUE, <<"b">>, NoSchema),
     Options(TRUE, <<"c">>, "S2")}

\* the groups whose callback is running, outermost first
Enclosing(stack) ==
    [i \in 1..Len(stack) |-> [prefix |-> stack[i].prefix, options |-> stack[i].options]]

(***************************************************************************)
(* Router: registration surface                                            *)
(***************************************************************************)
\* Router.group up to and including the call of the callback
GroupEnter(p, options) ==
    /\ pc = "idle"
    /\ calls < MaxCalls
    /\ LET previousPrefix == prefix
           previousGroupOptions == groupOptions
           combinedPath == PrefixedPath(previousPrefix, p)
       IN  /\ groupStack' = Append(groupStack,
                                   [previousPrefix |-> previousPrefix,
                                    previousGroupOptions |-> previousGroupOptions,
                                    prefix |-> p,
                                    options |-> options])
           /\ prefix' = combinedPath
           /\ groupOptions' = options
    /\ calls' = calls + 1
    /\ UNCHANGED <<routes, regLog, managerVars, requestVars, serviceVars>>

\* fault: the ambient options of the group stay after it returned
GroupExit_KeepsOptions ==
    /\ pc = "idle"
    /\ groupStack # <<>>
    /\ LET frame == groupStack[Len(groupStack)]
       IN  prefix' = frame.previousPrefix
    /\ groupStack' = SubSeq(groupStack, 1, Len(groupStack) - 1)
    /\ UNCHANGED <<routes, regLog, calls, groupOptions, managerVars, requestVars,
                   serviceVars>>

\* Router.group after the callback returned
GroupExit ==
    /\ pc = "idle"
    /\ groupStack # <<>>
    /\ LET frame == groupStack[Len(groupStack)]
       IN  /\ prefix' = frame.previousPrefix
           /\ groupOptions' = frame.previousGroupOptions
    /\ groupStack' = SubSeq(groupStack, 1, Len(groupStack) - 1)
    /\ UNCHANGED <<routes, regLog, calls, managerVars, requestVars, serviceVars>>

\* Router.get / Router.post (registerController and addRoute)
Register(method, path, ControllerClass, options) ==
    /\ pc = "idle"
    /\ calls < MaxCalls
    /\ routes' = registerController(routes, prefix, groupOptions,
                                    method, path, ControllerClass, options)
    /\ regLog' = Append(regLog, [enclosing |-> Enclosing(groupStack),
                                 method |-> method,
                                 path |-> path,
                                 ControllerClass |-> ControllerClass,
                                 options |-> options])
    /\ calls' = calls + 1
    /\ UNCHANGED <<prefix, groupOptions, groupStack, managerVars, requestVars, serviceVars>>

(***************************************************************************)
(* Values handed along the pipeline: responses, raw handler results, null  *)
(* and raised failures.  phase and i name the hook invocation that created *)
(* the object, which is the object's identity within one request.          *)
(***************************************************************************)
Val(type, phase, i, status, ctype, kind) ==
    [type |-> type, phase |-> phase, i |-> i, status |-> status, ctype |-> ctype,
     kind |-> kind, path |-> <<>>, errors |-> <<>>, message |-> ""]

Null == Val("null", "", 0, 0, "", "")

IsResponse(v) == v.type = "Response"

\* a value raised with throw
Thrown(phase, i, message) ==
    [Val("throw", phase, i, 0, "", "Error") EXCEPT !.message = message]

\* a response constructed by a hook of the application
HookResponse(phase, i) == Val("Response", phase, i, 401, "text/plain", "hook")

\* fault: the not-found response is built with status 200
NotFoundResponse_Ok(path) ==
    [Val("Response", "match", 0, 200, "application/json", "Not Found")
        EXCEPT !.path = path]

\* the response built when no route matches
NotFoundResponse(path) ==
    [Val("Response", "match", 0, 404, "application/json", "Not Found")
        EXCEPT !.path = path]

\* fault: the validation errors are left out of the response
ValidationFailedResponse_NoErrors(errors) ==
    Val("Response", "validate", 0, 422, "application/json", "Validation failed")

\* the response built by the route handler when validation fails
ValidationFailedResponse(errors) ==
    [Val("Response", "validate", 0, 422, "application/json", "Validation failed")
        EXCEPT !.errors = errors]

\* the response built by the catch clause of the fetch callback
InternalServerError(error) ==
    [Val("Response", "catch", 0, 500, "application/json", "Internal Server Error")
        EXCEPT !.message = error.message]

\* fault: every result is sent as text
toResponse_Text(res) ==
    [res EXCEPT !.type = "Response", !.ctype = "text/plain"]

toResponse(res) ==
    IF res.type = "Response" THEN res
    ELSE IF res.type = "string"
         THEN [res EXCEPT !.type = "Response", !.status = 200, !.ctype = "text/plain"]
         ELSE [res EXCEPT !.type = "Response", !.status = 200, !.ctype = "application/json"]

\* one entry of the history of a request
Event(ph, i, arg, out) == [ph |-> ph, i |-> i, arg |-> arg, out |-> out]

(***************************************************************************)
(* Validator (the rules the registered schemas use)                        *)
(***************************************************************************)
\* a JavaScript value: strings carry s, numbers and booleans carry n, objects
\* carry their own properties in insertion order, arrays their items
JsValue(t, s, n) == [t |-> t, s |-> s, n |-> n, props |-> <<>>]
JsUndefined == JsValue("undefined", "", 0)
JsNull == JsValue("null", "", 0)
JsString(s) == JsValue("string", s, 0)
JsNumber(n) == JsValue("number", "", n)
JsBoolean(b) == JsValue("boolean", "", IF b THEN 1 ELSE 0)
JsObject(props) == [t |-> "object", s |-> "", n |-> 0, props |-> props]
JsArray(items) ==
    [t |-> "array", s |-> "", n |-> 0,
     props |-> [i \in 1..Len(items) |-> [key |-> ToString(i - 1), value |-> items[i]]]]

\* obj[key], undefined when the object has no such property
Prop(props, key) ==
    IF \E i \in 1..Len(props) : props[i].key = key
    THEN props[CHOOSE i \in 1..Len(props) : props[i].key = key].value
    ELSE JsUndefined

FieldNames == {"name", "age", "role", "profile", "items"}

\* a parsed body: null, or an object whose absent keys read as undefined
NullData == [isNull |-> TRUE, fields |-> [f \in FieldNames |-> JsUndefined]]
ObjectData(fields) == [isNull |-> FALSE, fields |-> fields]

\* a ValidationRule; a rule property that is not declared has its has-flag
\* FALSE (type: ""), pattern is the set of strings the RegExp accepts (an
\* anchored expression such as /^abcd$/), global its g flag, lastIndex the
\* index its next test starts at, and custom is what the custom function
\* returns
Rule(required, type, hasMin, min) ==
    [required |-> required, type |-> type, hasMin |-> hasMin, min |-> min,
     hasMax |-> FALSE, max |-> 0,
     hasMinLength |-> FALSE, minLength |-> 0, hasMaxLength |-> FALSE, maxLength |-> 0,
     hasPattern |-> FALSE, pattern |-> {}, global |-> FALSE, lastIndex |-> 0,
     hasEnum |-> FALSE, enum |-> <<>>,
     hasCustom |-> FALSE, custom |-> JsUndefined, hasSchema |-> FALSE, schema |-> <<>>]

\* {name: {type:"string", required:true}, age: {type:"number", required:true}}
\* {role: {type:"string", required:true}}
SchemaOf(id) ==
    IF id = "S1"
    THEN <<[field |-> "name", rules |-> Rule(TRUE, "string", FALSE, 0)],
           [field |-> "age", rules |-> Rule(TRUE, "number", TRUE, 0)]>>
    ELSE <<[field |-> "role", rules |-> Rule(TRUE, "string", FALSE, 0)]>>

\* a ValidationError; origin is history: the full path of the field whose
\* rule produced the error
ValidationError(field, message, origin) ==
    [field |-> field, message |-> message, origin |-> origin]

\* fault: only undefined counts as not provided
IsAbsent_UndefinedOnly(value) == value.t = "undefined"

\* fault: the empty string counts as provided
IsAbsent_NotEmptyString(value) == value.t = "undefined" \/ value.t = "null"

IsAbsent(value) ==
    value.t = "undefined" \/ value.t = "null" \/ (value.t = "string" /\ value.s = "")

\* /^[^\s@]+@[^\s@]+\.[^\s@]+$/ and new URL(url) on the strings in use
isValidEmail(email) == email \in {"a@b.co"}
isValidUrl(url) == url \in {"http://b.co"}

\* fault: every value passes the type check
validateType_NeverFails(field, value, type) == ""

\* the message of the error validateType returns, "" for null (no error)
validateType(field, value, type) ==
    IF type = "string"
    THEN (IF value.t # "string" THEN field \o " must be a string" ELSE "")
    ELSE IF type = "number"
    THEN (IF value.t # "number" THEN field \o " must be a number" ELSE "")
    ELSE IF type = "boolean"
    THEN (IF value.t # "boolean" THEN field \o " must be a boolean" ELSE "")
    ELSE IF type = "email"
    THEN (IF value.t # "string" \/ ~isValidEmail(value.s)
          THEN field \o " must be a valid email" ELSE "")
    ELSE IF type = "url"
    THEN (IF value.t # "string" \/ ~isValidUrl(value.s)
          THEN field \o " must be a valid URL" ELSE "")
    ELSE IF type = "array"
    THEN (IF value.t # "array" THEN field \o " must be an array" ELSE "")
    ELSE IF type = "object"
    THEN (IF value.t # "object" THEN field \o " must be an object" ELSE "")
    ELSE "Unknown type: " \o type

\* errors.push(...list) for each list in turn
RECURSIVE PushAll(_)
PushAll(lists) ==
    IF lists = <<>> THEN <<>> ELSE Head(lists) \o PushAll(Tail(lists))

\* schema[key]: the positions of the entry in the schema (none: undefined)
RuleAt(schema, key) == {i \in 1..Len(schema) : schema[i].field = key}

\* an element schema read as a ValidationRule: its properties are looked up
\* under the names of rule properties, which no field of a schema here has
SchemaAsRule(schema) == Rule(FALSE, "", FALSE, 0)

\* rules.pattern.test(s): an expression with the g flag searches from
\* lastIndex, and an anchored one matches at index 0 only
RegExpTest(rules, s) ==
    IF rules.global THEN rules.lastIndex = 0 /\ s \in rules.pattern
    ELSE s \in rules.pattern

RECURSIVE validateField(_, _, _, _)
RECURSIVE validateNestedObject(_, _, _)

validateField(field, value, rules, parentField) ==
    LET fullField == IF parentField # "" THEN parentField \o "." \o field ELSE field
        createError(message) == ValidationError(fullField, fullField \o message, fullField)
        fieldError(message) == ValidationError(field, field \o message, fullField)
        typeError == IF rules.type # "" THEN validateType(fullField, value, rules.type)
                     ELSE ""
        length == IF value.t = "string" THEN Len(value.s) ELSE Len(value.props)
    IN  IF rules.required /\ IsAbsent(value) THEN <<createError(" is required")>>
        ELSE IF IsAbsent(value) THEN <<>>
        ELSE IF typeError # "" THEN <<ValidationError(fullField, typeError, fullField)>>
        ELSE
          (IF value.t = "number" /\ rules.hasMin /\ value.n < rules.min
           THEN <<fieldError(" must be at least " \o ToString(rules.min))>> ELSE <<>>)
          \o
          (IF value.t = "number" /\ rules.hasMax /\ value.n > rules.max
           THEN <<fieldError(" must be at most " \o ToString(rules.max))>> ELSE <<>>)
          \o
          (IF value.t \in {"string", "array"} /\ rules.hasMinLength
                /\ length < rules.minLength
           THEN <<fieldError(" must be at least " \o ToString(rules.minLength)
                                \o " characters")>>
           ELSE <<>>)
          \o
          (IF value.t \in {"string", "array"} /\ rules.hasMaxLength
                /\ length > rules.maxLength
           THEN <<fieldError(" must be at most " \o ToString(rules.maxLength)
                                \o " characters")>>
           ELSE <<>>)
          \o
          (IF rules.hasPattern /\ value.t = "string" /\ ~RegExpTest(rules, value.s)
           THEN <<fieldError(" format is invalid")>> ELSE <<>>)
          \o
          (IF rules.hasEnum
                /\ ~\E i \in 1..Len(rules.enum) :
                       rules.enum[i] = value /\ value.t \notin {"object", "array"}
           THEN <<createError(" must be one of")>> ELSE <<>>)
          \o
          (IF rules.hasCustom /\ rules.custom # JsBoolean(TRUE)
           THEN <<IF rules.custom.t = "string"
                  THEN ValidationError(fullField, rules.custom.s, fullField)
                  ELSE createError(" is invalid")>>
           ELSE <<>>)
          \o
          (IF rules.type = "object" /\ rules.hasSchema /\ value.t = "object"
           THEN validateNestedObject(value, rules.schema, fullField) ELSE <<>>)
          \o
          (IF rules.type = "array" /\ rules.hasSchema /\ value.t = "array"
           THEN PushAll([i \in 1..Len(value.props) |->
                    validateField(field \o "[" \o value.props[i].key \o "]",
                                  value.props[i].value, SchemaAsRule(rules.schema),
                                  fullField)])
           ELSE <<>>)

\* fault: the second loop also reports a required key that is present with
\* a value that is not provided
validateNestedObject_CountsNull(obj, schema, parentField) ==
    LET existing == [i \in 1..Len(obj.props) |->
                        IF RuleAt(schema, obj.props[i].key) = {} THEN <<>>
                        ELSE validateField(obj.props[i].key, obj.props[i].value,
                                 schema[CHOOSE k \in RuleAt(schema, obj.props[i].key) : TRUE].rules,
                                 parentField)]
        missing == [k \in 1..Len(schema) |->
                        IF schema[k].rules.required
                              /\ ~\E i \in 1..Len(obj.props) :
                                     /\ obj.props[i].key = schema[k].field
                                     /\ ~IsAbsent(obj.props[i].value)
                        THEN LET fullField == IF parentField # ""
                                              THEN parentField \o "." \o schema[k].field
                                              ELSE schema[k].field
                             IN  <<ValidationError(fullField, fullField \o " is required",
                                                   fullField)>>
                        ELSE <<>>]
    IN  PushAll(existing) \o PushAll(missing)

validateNestedObject(obj, schema, parentField) ==
    LET existing == [i \in 1..Len(obj.props) |->
                        IF RuleAt(schema, obj.props[i].key) = {} THEN <<>>
                        ELSE validateField(obj.props[i].key, obj.props[i].value,
                                 schema[CHOOSE k \in RuleAt(schema, obj.props[i].key) : TRUE].rules,
                                 parentField)]
        missing == [k \in 1..Len(schema) |->
                        IF schema[k].rules.required
                              /\ ~\E i \in 1..Len(obj.props) : obj.props[i].key = schema[k].field
                        THEN LET fullField == IF parentField # ""
                                              THEN parentField \o "." \o schema[k].field
                                              ELSE schema[k].field
                             IN  <<ValidationError(fullField, fullField \o " is required",
                                                   fullField)>>
                        ELSE <<>>]
    IN  PushAll(existing) \o PushAll(missing)

\* the loop of validate over Object.entries(schema)
validateEntries(fields, schema) ==
    PushAll([k \in 1..Len(schema) |->
                validateField(schema[k].field, fields[schema[k].field],
                              schema[k].rules, "")])

\* Validator.validate: {valid, errors}; null data reads as {}
validate(data, schema) ==
    LET errors == validateEntries(data.fields, schema)
    IN  [valid |-> errors = <<>>, errors |-> errors]

\* the rule object as validateField leaves it: test stores in lastIndex of
\* an expression with the g flag the end of the match, or 0 when it fails
RECURSIVE rulesAfter(_, _, _)
rulesAfter(rules, value, fullField) ==
    LET checked == /\ ~IsAbsent(value)
                   /\ rules.type # "" => validateType(fullField, value, rules.type) = ""
        tested == checked /\ rules.hasPattern /\ value.t = "string" /\ rules.global
        nested == checked /\ rules.type = "object" /\ rules.hasSchema /\ value.t = "object"
    IN  [rules EXCEPT
           !.lastIndex = IF ~tested THEN @
                         ELSE IF RegExpTest(rules, value.s) THEN Len(value.s) ELSE 0,
           !.schema = IF ~nested THEN @
                      ELSE [k \in 1..Len(@) |->
                              [@[k] EXCEPT !.rules =
                                  rulesAfter(@, Prop(value.props, rules.schema[k].field),
                                             fullField \o "." \o rules.schema[k].field)]]]

\* the schema object as validate leaves it
schemaAfter(data, schema) ==
    [k \in 1..Len(schema) |->
        [schema[k] EXCEPT !.rules =
            rulesAfter(@, data.fields[schema[k].field], schema[k].field)]]

\* no call of validate made yet
NoInput == [data |-> NullData, schema |-> <<>>]
NoOutput == [called |-> FALSE, calls |-> 0, valid |-> FALSE, errors |-> <<>>]

(***************************************************************************)
(* Validator: the schemas and data validate is applied to                  *)
(***************************************************************************)
\* a rule that also declares min, max, minLength, maxLength, pattern, enum
\* and custom: {min: 5, max: 9, minLength: 3, maxLength: 5, pattern: /^abcd$/,
\* enum: ["abcd", 7], custom: () => "bad"}; LeafRules has it with the
\* pattern /^abcd$/g as well
Declared(rules) ==
    [rules EXCEPT !.hasMin = TRUE, !.min = 5, !.hasMax = TRUE, !.max = 9,
                  !.hasMinLength = TRUE, !.minLength = 3,
                  !.hasMaxLength = TRUE, !.maxLength = 5,
                  !.hasPattern = TRUE, !.pattern = {"abcd"},
                  !.hasEnum = TRUE, !.enum = <<JsString("abcd"), JsNumber(7)>>,
                  !.hasCustom = TRUE, !.custom = JsString("bad")]

LeafRules ==
    LET plain == {Rule(required, type, FALSE, 0) :
                    required \in BOOLEAN, type \in {"", "string", "number"}}
        declared == {Declared(rules) : rules \in plain}
    IN  plain \cup declared \cup {[rules EXCEPT !.global = TRUE] : rules \in declared}

\* {type: "object", schema: {...}}
ObjectRule(required, schema) ==
    [Rule(required, "object", FALSE, 0) EXCEPT !.hasSchema = TRUE, !.schema = schema]

LeafValues ==
    {JsUndefined, JsNull, JsString(""), JsString("ab"), JsString("abcd"),
     JsNumber(3), JsNumber(7)}

\* {name: r1, profile: {type:"object", schema: {contact: {type:"object",
\*  schema: {phone: r2}}}}}
Schemas ==
    {<<[field |-> "name", rules |-> r1],
       [field |-> "profile", rules |->
          ObjectRule(q1, <<[field |-> "contact", rules |->
             ObjectRule(q2, <<[field |-> "phone", rules |-> r2]>>)]>>)]>> :
        r1 \in LeafRules, r2 \in LeafRules, q1 \in BOOLEAN, q2 \in BOOLEAN}

\* an object with no property, or with the one property key: value
ObjectsWith(key, values) ==
    {JsObject(<<>>)} \cup {JsObject(<<[key |-> key, value |-> v]>>) : v \in values}

Data ==
    LET contacts == {JsNull, JsString("ab")} \cup ObjectsWith("phone", LeafValues)
        profiles == {JsUndefined, JsNull, JsString("ab")}
                        \cup ObjectsWith("contact", contacts)
    IN  {ObjectData([f \in FieldNames |->
                        IF f = "name" THEN v
                        ELSE IF f = "profile" THEN o ELSE JsUndefined]) :
            v \in LeafValues, o \in profiles}

\* {type: "array", schema: {...}}
ArrayRule(required, schema) ==
    [Rule(required, "array", FALSE, 0) EXCEPT !.hasSchema = TRUE, !.schema = schema]

\* {items: {type: "array", schema: {name: r}}}
ArraySchemas ==
    {<<[field |-> "items", rules |-> ArrayRule(q, <<[field |-> "name", rules |-> r]>>)]>> :
        q \in BOOLEAN, r \in LeafRules}

\* {items: [...]} with up to MaxItems elements such as {}, {name: "ab"}, "ab"
ArrayData ==
    LET elements == {JsString("ab")}
                        \cup ObjectsWith("name", {JsString("ab"), JsNumber(3)})
        arrays == UNION {[1..n -> elements] : n \in 0..MaxItems}
    IN  {ObjectData([f \in FieldNames |-> IF f = "items" THEN v ELSE JsUndefined]) :
            v \in {JsUndefined, JsString("ab")} \cup {JsArray(a) : a \in arrays}}

\* what a caller may hand to validate
ValidatorInputs ==
    [data : Data, schema : Schemas] \cup [data : ArrayData, schema : ArraySchemas]

\* a caller applies Validator.validate to its data and schema
Validate ==
    /\ ~validatorOutput.called
    /\ LET r == validate(validatorInput.data, validatorInput.schema)
       IN  validatorOutput' = [called |-> TRUE, calls |-> 1,
                               valid |-> r.valid, errors |-> r.errors]
    /\ validatorInput' = [validatorInput EXCEPT
                            !.schema = schemaAfter(validatorInput.data, @)]
    /\ UNCHANGED <<containerVars, routerVars, managerVars, requestVars, extraVars>>

\* a later caller applies Validator.validate to the same data and the same
\* schema object
ValidateAgain ==
    /\ validatorOutput.called
    /\ validatorOutput.calls < MaxValidations
    /\ LET r == validate(validatorInput.data, validatorInput.schema)
       IN  validatorOutput' = [called |-> TRUE, calls |-> validatorOutput.calls + 1,
                               valid |-> r.valid, errors |-> r.errors]
    /\ validatorInput' = [validatorInput EXCEPT
                            !.schema = schemaAfter(validatorInput.data, @)]
    /\ UNCHANGED <<containerVars, routerVars, managerVars, requestVars, extraVars>>

(***************************************************************************)
(* Requests                                                                *)
(***************************************************************************)
Request(method, pathname, contentType, ok, data) ==
    [method |-> method, pathname |-> pathname, contentType |-> contentType,
     payload |-> [ok |-> ok, data |-> data]]

NoRequest == Request("", <<>>, "", FALSE, NullData)

John == ObjectData([f \in FieldNames |->
            IF f = "name" THEN JsString("John") ELSE JsUndefined])
John30 == ObjectData([f \in FieldNames |->
            IF f = "name" THEN JsString("John")
            ELSE IF f = "age" THEN JsNumber(30) ELSE JsUndefined])

\* POST /users {"name":"John","age":30}; POST /users {"name":"John"};
\* POST /users/ with malformed JSON; GET /users; GET /42; GET /users/42/x/
Requests ==
    {Request("POST", <<"", "users">>, "application/json", TRUE, John30),
     Request("POST", <<"", "users">>, "application/json", TRUE, John),
     Request("POST", <<"", "users", "">>, "application/json", FALSE, NullData),
     Request("GET", <<"", "users">>, "", FALSE, NullData),
     Request("GET", <<"", "42">>, "text/plain", TRUE, John),
     Request("GET", <<"", "users", "42", "x", "">>, "", FALSE, NullData)}

\* Router.parseBody for absent, JSON and other content types; a body that
\* fails to parse is logged and read as null
parseBody(request) ==
    IF request.contentType = "" THEN NullData
    ELSE IF request.contentType = "application/json"
         THEN (IF request.payload.ok THEN request.payload.data ELSE NullData)
         ELSE NullData

\* Router.extractParams: the capture of each :name segment, in order
extractParams(r, path) ==
    IF ~PatternTest(r.pattern, path) THEN <<>>
    ELSE LET positions == SelectSeq([i \in 1..Len(r.path) |-> i],
                                    LAMBDA i : IsParam(r.path[i]))
         IN  [k \in 1..Len(positions) |->
                [name |-> r.path[positions[k]], value |-> path[positions[k]]]]

NoRoute == [method |-> "", path |-> <<>>,
            handler |-> [validation |-> NoSchema, ControllerClass |-> ""],
            middleware |-> <<>>, pattern |-> <<>>]

NoContext == [request |-> NoRequest, params |-> <<>>, body |-> NullData]

(***************************************************************************)
(* MiddlewareManager: registration                                         *)
(***************************************************************************)
MiddlewareNames == {"a", "b", "c"}

\* the names the application registers middleware under
RegisteredNames == {"a", "b"}

\* a middleware object defines before, after, both or neither
MiddlewareKinds == [hasBefore : BOOLEAN, hasAfter : BOOLEAN]

\* Map.get of a name that was never set
NoMiddleware == [def |-> FALSE, hasBefore |-> FALSE, hasAfter |-> FALSE]

addGlobal(list, middleware) == Append(list, middleware)

AddGlobal(kind) ==
    /\ pc = "idle"
    /\ Len(globalMiddleware) < MaxGlobal
    /\ globalMiddleware' =
          addGlobal(globalMiddleware,
                    [id |-> Len(globalMiddleware) + 1,
                     hasBefore |-> kind.hasBefore, hasAfter |-> kind.hasAfter])
    /\ UNCHANGED <<routerVars, namedMiddleware, requestVars, serviceVars>>

RegisterNamed(name, kind) ==
    /\ pc = "idle"
    /\ namedMiddleware' =
          [namedMiddleware EXCEPT ![name] =
              [def |-> TRUE, hasBefore |-> kind.hasBefore, hasAfter |-> kind.hasAfter]]
    /\ UNCHANGED <<routerVars, globalMiddleware, requestVars, serviceVars>>

(***************************************************************************)
(* Application: the fetch callback.  Every hook of the application is a    *)
(* suspension point; what a hook returns or raises is its own choice.      *)
(***************************************************************************)
BeforeOutcomes == {"null", "response", "throw"}
AfterOutcomes == {"same", "new", "throw"}
HandleOutcomes == {"Response", "string", "object", "throw"}

\* fault: the failure leaves the fetch callback
Catch_Rethrows(error, events) ==
    /\ result' = error
    /\ pc' = "done"
    /\ trace' = trace \o events

\* the catch clause of the fetch callback
Catch(error, events) ==
    /\ result' = InternalServerError(error)
    /\ pc' = "done"
    /\ trace' = trace \o events

\* the runtime calls fetch(request); executeGlobalBefore is entered
Fetch(request) ==
    /\ pc = "idle"
    /\ groupStack = <<>>
    /\ req' = request
    /\ pc' = "globalBefore"
    /\ idx' = 1
    /\ trace' = <<Event("globalBefore", 0, Null, Null)>>
    /\ UNCHANGED <<serviceVars, routerVars, managerVars, route, context, cur, routerResult, result>>

\* executeGlobalBefore: a middleware without before
GlobalBeforeSkip ==
    /\ pc = "globalBefore"
    /\ idx <= Len(globalMiddleware)
    /\ ~globalMiddleware[idx].hasBefore
    /\ idx' = idx + 1
    /\ UNCHANGED <<serviceVars, routerVars, managerVars, pc, req, route, context, cur,
                   routerResult, result, trace>>

\* fault: the response of a before hook is kept but the loop goes on
GlobalBeforeHook_NoReturn(out) ==
    /\ pc = "globalBefore"
    /\ idx <= Len(globalMiddleware)
    /\ globalMiddleware[idx].hasBefore
    /\ IF out = "null" \/ out = "response"
       THEN /\ idx' = idx + 1
            /\ trace' = Append(trace, Event("globalBefore", idx, Null,
                                 IF out = "null" THEN Null
                                 ELSE HookResponse("globalBefore", idx)))
            /\ UNCHANGED <<pc, result>>
       ELSE /\ Catch(Thrown("globalBefore", idx, "hook"),
                     <<Event("globalBefore", idx, Null, Thrown("globalBefore", idx, "hook"))>>)
            /\ UNCHANGED idx
    /\ UNCHANGED <<serviceVars, routerVars, managerVars, req, route, context, cur, routerResult>>

\* executeGlobalBefore: await middleware.before(context)
GlobalBeforeHook(out) ==
    /\ pc = "globalBefore"
    /\ idx <= Len(globalMiddleware)
    /\ globalMiddleware[idx].hasBefore
    /\ IF out = "null"
       THEN /\ idx' = idx + 1
            /\ trace' = Append(trace, Event("globalBefore", idx, Null, Null))
            /\ UNCHANGED <<pc, result>>
       ELSE IF out = "response"
       THEN /\ result' = HookResponse("globalBefore", idx)
            /\ pc' = "done"
            /\ trace' = Append(trace, Event("globalBefore", idx, Null,
                                            HookResponse("globalBefore", idx)))
            /\ UNCHANGED idx
       ELSE /\ Catch(Thrown("globalBefore", idx, "hook"),
                     <<Event("globalBefore", idx, Null, Thrown("globalBefore", idx, "hook"))>>)
            /\ UNCHANGED idx
    /\ UNCHANGED <<serviceVars, routerVars, managerVars, req, route, context, cur, routerResult>>

\* executeGlobalBefore returns null; Router.handle is called
GlobalBeforeEnd ==
    /\ pc = "globalBefore"
    /\ idx > Len(globalMiddleware)
    /\ pc' = "match"
    /\ UNCHANGED <<serviceVars, routerVars, managerVars, req, idx, route, context, cur,
                   routerResult, result, trace>>

(***************************************************************************)
(* Router.handle                                                           *)
(***************************************************************************)
\* Router.handle returns response to the fetch callback, which enters
\* executeGlobalAfter with it
RouterReturn(response, events) ==
    /\ routerResult' = response
    /\ cur' = response
    /\ pc' = "globalAfter"
    /\ idx' = 1
    /\ trace' = trace \o events \o <<Event("globalAfter", 0, response, Null)>>

\* the route handler produced res; executeRouteAfter is entered with its response
HandlerReturn(res, events) ==
    /\ cur' = toResponse(res)
    /\ pc' = "routeAfter"
    /\ idx' = 1
    /\ trace' = trace \o events \o <<Event("routeAfter", 0, toResponse(res), Null)>>

\* fault: the 404 response goes to the client past executeGlobalAfter
RouterMatch_NotFoundBypassesAfter ==
    /\ pc = "match"
    /\ LET path == normalizePath(req.pathname)
           k == findRouteIndex(routes, req.method, path)
       IN  IF k = 0
           THEN /\ routerResult' = NotFoundResponse(path)
                /\ result' = NotFoundResponse(path)
                /\ pc' = "done"
                /\ trace' = Append(trace, Event("match", 0, Null, NotFoundResponse(path)))
                /\ UNCHANGED <<idx, cur, route, context>>
           ELSE /\ route' = routes[k]
                /\ context' = [request |-> req,
                               params |-> extractParams(routes[k], path),
                               body |-> parseBody(req)]
                /\ pc' = "routeBefore"
                /\ idx' = 1
                /\ trace' = trace \o <<Event("match", k, Null, Null),
                                       Event("routeBefore", 0, Null, Null)>>
                /\ UNCHANGED <<cur, routerResult, result>>
    /\ UNCHANGED <<serviceVars, routerVars, managerVars, req>>

\* fault: a body that fails to parse fails the request
RouterMatch_ParseFailureRaises ==
    /\ pc = "match"
    /\ LET path == normalizePath(req.pathname)
           k == findRouteIndex(routes, req.method, path)
       IN  IF k = 0
           THEN /\ RouterReturn(NotFoundResponse(path),
                                <<Event("match", 0, Null, NotFoundResponse(path))>>)
                /\ UNCHANGED <<route, context, result>>
           ELSE IF req.contentType = "application/json" /\ ~req.payload.ok
           THEN /\ route' = routes[k]
                /\ routerResult' = Thrown("match", k, "SyntaxError")
                /\ Catch(Thrown("match", k, "SyntaxError"),
                         <<Event("match", k, Null, Thrown("match", k, "SyntaxError"))>>)
                /\ UNCHANGED <<idx, cur, context>>
           ELSE /\ route' = routes[k]
                /\ context' = [request |-> req,
                               params |-> extractParams(routes[k], path),
                               body |-> parseBody(req)]
                /\ pc' = "routeBefore"
                /\ idx' = 1
                /\ trace' = trace \o <<Event("match", k, Null, Null),
                                       Event("routeBefore", 0, Null, Null)>>
                /\ UNCHANGED <<cur, routerResult, result>>
    /\ UNCHANGED <<serviceVars, routerVars, managerVars, req>>

\* findRoute, the 404 response or extractParams, parseBody and the context
RouterMatch ==
    /\ pc = "match"
    /\ LET path == normalizePath(req.pathname)
           k == findRouteIndex(routes, req.method, path)
       IN  IF k = 0
           THEN /\ RouterReturn(NotFoundResponse(path),
                                <<Event("match", 0, Null, NotFoundResponse(path))>>)
                /\ UNCHANGED <<route, context>>
           ELSE /\ route' = routes[k]
                /\ context' = [request |-> req,
                               params |-> extractParams(routes[k], path),
                               body |-> parseBody(req)]
                /\ pc' = "routeBefore"
                /\ idx' = 1
                /\ trace' = trace \o <<Event("match", k, Null, Null),
                                       Event("routeBefore", 0, Null, Null)>>
                /\ UNCHANGED <<cur, routerResult>>
    /\ UNCHANGED <<serviceVars, routerVars, managerVars, req, result>>

\* fault: an unregistered name is passed over
RouteBeforeMissing_Skips ==
    /\ pc = "routeBefore"
    /\ idx <= Len(route.middleware)
    /\ ~namedMiddleware[route.middleware[idx]].def
    /\ idx' = idx + 1
    /\ UNCHANGED <<serviceVars, routerVars, managerVars, pc, req, route, context, cur,
                   routerResult, result, trace>>

\* executeRouteBefore: the name is not registered
RouteBeforeMissing ==
    /\ pc = "routeBefore"
    /\ idx <= Len(route.middleware)
    /\ ~namedMiddleware[route.middleware[idx]].def
    /\ LET error == Thrown("routeBefore", idx, route.middleware[idx])
       IN  /\ routerResult' = error
           /\ Catch(error, <<Event("routeBefore", idx, Null, error)>>)
    /\ UNCHANGED <<serviceVars, routerVars, managerVars, req, idx, route, context, cur>>

\* executeRouteBefore: a middleware without before
RouteBeforeSkip ==
    /\ pc = "routeBefore"
    /\ idx <= Len(route.middleware)
    /\ namedMiddleware[route.middleware[idx]].def
    /\ ~namedMiddleware[route.middleware[idx]].hasBefore
    /\ idx' = idx + 1
    /\ UNCHANGED <<serviceVars, routerVars, managerVars, pc, req, route, context, cur,
                   routerResult, result, trace>>

\* fault: the response of a route before hook is sent through executeRouteAfter
RouteBeforeHook_RunsAfter(out) ==
    /\ pc = "routeBefore"
    /\ idx <= Len(route.middleware)
    /\ namedMiddleware[route.middleware[idx]].def
    /\ namedMiddleware[route.middleware[idx]].hasBefore
    /\ IF out = "null"
       THEN /\ idx' = idx + 1
            /\ trace' = Append(trace, Event("routeBefore", idx, Null, Null))
            /\ UNCHANGED <<pc, cur, routerResult, result>>
       ELSE IF out = "response"
       THEN /\ HandlerReturn(HookResponse("routeBefore", idx),
                             <<Event("routeBefore", idx, Null,
                                     HookResponse("routeBefore", idx))>>)
            /\ UNCHANGED <<routerResult, result>>
       ELSE /\ routerResult' = Thrown("routeBefore", idx, "hook")
            /\ Catch(Thrown("routeBefore", idx, "hook"),
                     <<Event("routeBefore", idx, Null, Thrown("routeBefore", idx, "hook"))>>)
            /\ UNCHANGED <<idx, cur>>
    /\ UNCHANGED <<serviceVars, routerVars, managerVars, req, route, context>>

\* executeRouteBefore: await middleware.before(context)
RouteBeforeHook(out) ==
    /\ pc = "routeBefore"
    /\ idx <= Len(route.middleware)
    /\ namedMiddleware[route.middleware[idx]].def
    /\ namedMiddleware[route.middleware[idx]].hasBefore
    /\ IF out = "null"
       THEN /\ idx' = idx + 1
            /\ trace' = Append(trace, Event("routeBefore", idx, Null, Null))
            /\ UNCHANGED <<pc, cur, routerResult, result>>
       ELSE IF out = "response"
       THEN /\ RouterReturn(HookResponse("routeBefore", idx),
                            <<Event("routeBefore", idx, Null,
                                    HookResponse("routeBefore", idx))>>)
            /\ UNCHANGED result
       ELSE /\ routerResult' = Thrown("routeBefore", idx, "hook")
            /\ Catch(Thrown("routeBefore", idx, "hook"),
                     <<Event("routeBefore", idx, Null, Thrown("routeBefore", idx, "hook"))>>)
            /\ UNCHANGED <<idx, cur>>
    /\ UNCHANGED <<serviceVars, routerVars, managerVars, req, route, context>>

\* executeRouteBefore returns null; route.handler is called
RouteBeforeEnd ==
    /\ pc = "routeBefore"
    /\ idx > Len(route.middleware)
    /\ pc' = "handler"
    /\ UNCHANGED <<serviceVars, routerVars, managerVars, req, idx, route, context, cur,
                   routerResult, result, trace>>

\* fault: the closure goes to the controller without validating
RouteHandler_SkipsValidation ==
    /\ pc = "handler"
    /\ pc' = IF HasBeforeHandle(route.handler.ControllerClass)
             THEN "beforeHandle" ELSE "handle"
    /\ UNCHANGED <<serviceVars, routerVars, managerVars, req, idx, route, context, cur,
                   routerResult, result, trace>>

\* fault: the 422 response leaves Router.handle past executeRouteAfter
RouteHandler_FailureBypassesAfter ==
    /\ pc = "handler"
    /\ LET schema == route.handler.validation
           checked == validate(context.body, SchemaOf(schema))
       IN  IF schema # NoSchema /\ ~checked.valid
           THEN /\ RouterReturn(ValidationFailedResponse(checked.errors),
                                <<Event("validate", 0, Null,
                                        ValidationFailedResponse(checked.errors))>>)
                /\ UNCHANGED result
           ELSE /\ pc' = IF HasBeforeHandle(route.handler.ControllerClass)
                         THEN "beforeHandle" ELSE "handle"
                /\ trace' = trace \o (IF schema # NoSchema
                                      THEN <<Event("validate", 0, Null, Null)>>
                                      ELSE <<>>)
                /\ UNCHANGED <<idx, cur, routerResult, result>>
    /\ UNCHANGED <<serviceVars, routerVars, managerVars, req, route, context>>

\* the handler closure of registerController: validation, then the controller
RouteHandler ==
    /\ pc = "handler"
    /\ LET schema == route.handler.validation
           checked == validate(context.body, SchemaOf(schema))
       IN  IF schema # NoSchema /\ ~checked.valid
           THEN HandlerReturn(ValidationFailedResponse(checked.errors),
                              <<Event("validate", 0, Null,
                                      ValidationFailedResponse(checked.errors))>>)
           ELSE /\ pc' = IF HasBeforeHandle(route.handler.ControllerClass)
                         THEN "beforeHandle" ELSE "handle"
                /\ trace' = trace \o (IF schema # NoSchema
                                      THEN <<Event("validate", 0, Null, Null)>>
                                      ELSE <<>>)
                /\ UNCHANGED <<idx, cur>>
    /\ UNCHANGED <<serviceVars, routerVars, managerVars, req, route, context, routerResult, result>>

(***************************************************************************)
(* Controller.execute                                                      *)
(***************************************************************************)
\* a failure raised inside route.handler leaves Router.handle and is caught
HandlerThrow(error, events) ==
    /\ routerResult' = error
    /\ Catch(error, events)
    /\ UNCHANGED <<idx, cur>>

\* fault: what beforeHandle returns is ignored
BeforeHandle_IgnoresResult(out) ==
    /\ pc = "beforeHandle"
    /\ IF out \in {"null", "response"}
       THEN /\ pc' = "handle"
            /\ trace' = Append(trace, Event("beforeHandle", 0, Null,
                                  IF out = "null" THEN Null
                                  ELSE HookResponse("beforeHandle", 0)))
            /\ UNCHANGED <<idx, cur, routerResult, result>>
       ELSE HandlerThrow(Thrown("beforeHandle", 0, "hook"),
                         <<Event("beforeHandle", 0, Null, Thrown("beforeHandle", 0, "hook"))>>)
    /\ UNCHANGED <<serviceVars, routerVars, managerVars, req, route, context>>

\* await this.beforeHandle()
BeforeHandle(out) ==
    /\ pc = "beforeHandle"
    /\ IF out = "null"
       THEN /\ pc' = "handle"
            /\ trace' = Append(trace, Event("beforeHandle", 0, Null, Null))
            /\ UNCHANGED <<idx, cur, routerResult, result>>
       ELSE IF out = "response"
       THEN /\ HandlerReturn(HookResponse("beforeHandle", 0),
                             <<Event("beforeHandle", 0, Null,
                                     HookResponse("beforeHandle", 0))>>)
            /\ UNCHANGED <<routerResult, result>>
       ELSE HandlerThrow(Thrown("beforeHandle", 0, "hook"),
                         <<Event("beforeHandle", 0, Null, Thrown("beforeHandle", 0, "hook"))>>)
    /\ UNCHANGED <<serviceVars, routerVars, managerVars, req, route, context>>

\* what handle returns: a response, a string or an object
HandleResult(out) ==
    Val(out, "handle", 0, 200, IF out = "Response" THEN "application/json" ELSE "", "success")

\* await this.handle(context)
Handle(out) ==
    /\ pc = "handle"
    /\ IF out = "throw"
       THEN HandlerThrow(Thrown("handle", 0, "hook"),
                         <<Event("handle", 0, Null, Thrown("handle", 0, "hook"))>>)
       ELSE IF HasAfterHandle(route.handler.ControllerClass)
       THEN /\ cur' = HandleResult(out)
            /\ pc' = "afterHandle"
            /\ trace' = Append(trace, Event("handle", 0, Null, HandleResult(out)))
            /\ UNCHANGED <<idx, routerResult, result>>
       ELSE /\ HandlerReturn(HandleResult(out),
                             <<Event("handle", 0, Null, HandleResult(out))>>)
            /\ UNCHANGED <<routerResult, result>>
    /\ UNCHANGED <<serviceVars, routerVars, managerVars, req, route, context>>

\* fault: execute returns what handle returned, not what afterHandle did
AfterHandle_DropsOutput(out) ==
    /\ pc = "afterHandle"
    /\ IF out = "throw"
       THEN HandlerThrow(Thrown("afterHandle", 0, "hook"),
                         <<Event("afterHandle", 0, cur, Thrown("afterHandle", 0, "hook"))>>)
       ELSE LET returned == IF out = "same" THEN cur
                            ELSE Val("object", "afterHandle", 0, 200, "", "success")
            IN  /\ HandlerReturn(cur, <<Event("afterHandle", 0, cur, returned)>>)
                /\ UNCHANGED <<routerResult, result>>
    /\ UNCHANGED <<serviceVars, routerVars, managerVars, req, route, context>>

\* await this.afterHandle(response)
AfterHandle(out) ==
    /\ pc = "afterHandle"
    /\ IF out = "throw"
       THEN HandlerThrow(Thrown("afterHandle", 0, "hook"),
                         <<Event("afterHandle", 0, cur, Thrown("afterHandle", 0, "hook"))>>)
       ELSE LET returned == IF out = "same" THEN cur
                            ELSE Val("object", "afterHandle", 0, 200, "", "success")
            IN  /\ HandlerReturn(returned, <<Event("afterHandle", 0, cur, returned)>>)
                /\ UNCHANGED <<routerResult, result>>
    /\ UNCHANGED <<serviceVars, routerVars, managerVars, req, route, context>>

(***************************************************************************)
(* MiddlewareManager: the after phases                                     *)
(***************************************************************************)
\* executeRouteAfter: a middleware without after (reading after of a name
\* that resolves to undefined raises a TypeError)
RouteAfterSkip ==
    /\ pc = "routeAfter"
    /\ idx <= Len(route.middleware)
    /\ ~namedMiddleware[route.middleware[idx]].hasAfter
    /\ IF namedMiddleware[route.middleware[idx]].def
       THEN /\ idx' = idx + 1
            /\ UNCHANGED <<pc, routerResult, result, trace>>
       ELSE /\ routerResult' = Thrown("routeAfter", idx, "TypeError")
            /\ Catch(Thrown("routeAfter", idx, "TypeError"),
                     <<Event("routeAfter", idx, cur, Thrown("routeAfter", idx, "TypeError"))>>)
            /\ UNCHANGED idx
    /\ UNCHANGED <<serviceVars, routerVars, managerVars, req, route, context, cur>>

\* fault: the output of the after hook is not assigned to currentResponse
RouteAfterHook_DropsOutput(out) ==
    /\ pc = "routeAfter"
    /\ idx <= Len(route.middleware)
    /\ namedMiddleware[route.middleware[idx]].hasAfter
    /\ IF out = "throw"
       THEN /\ routerResult' = Thrown("routeAfter", idx, "hook")
            /\ Catch(Thrown("routeAfter", idx, "hook"),
                     <<Event("routeAfter", idx, cur, Thrown("routeAfter", idx, "hook"))>>)
            /\ UNCHANGED <<idx, cur>>
       ELSE LET returned == IF out = "same" THEN cur ELSE HookResponse("routeAfter", idx)
            IN  /\ idx' = idx + 1
                /\ trace' = Append(trace, Event("routeAfter", idx, cur, returned))
                /\ UNCHANGED <<pc, cur, routerResult, result>>
    /\ UNCHANGED <<serviceVars, routerVars, managerVars, req, route, context>>

\* executeRouteAfter: context.response = currentResponse;
\* currentResponse = await middleware.after(context)
RouteAfterHook(out) ==
    /\ pc = "routeAfter"
    /\ idx <= Len(route.middleware)
    /\ namedMiddleware[route.middleware[idx]].hasAfter
    /\ IF out = "throw"
       THEN /\ routerResult' = Thrown("routeAfter", idx, "hook")
            /\ Catch(Thrown("routeAfter", idx, "hook"),
                     <<Event("routeAfter", idx, cur, Thrown("routeAfter", idx, "hook"))>>)
            /\ UNCHANGED <<idx, cur>>
       ELSE LET returned == IF out = "same" THEN cur ELSE HookResponse("routeAfter", idx)
            IN  /\ cur' = returned
                /\ idx' = idx + 1
                /\ trace' = Append(trace, Event("routeAfter", idx, cur, returned))
                /\ UNCHANGED <<pc, routerResult, result>>
    /\ UNCHANGED <<serviceVars, routerVars, managerVars, req, route, context>>

\* executeRouteAfter returns currentResponse and Router.handle returns it
RouteAfterEnd ==
    /\ pc = "routeAfter"
    /\ idx > Len(route.middleware)
    /\ RouterReturn(cur, <<>>)
    /\ UNCHANGED <<serviceVars, routerVars, managerVars, req, route, context, result>>

\* executeGlobalAfter: a middleware without after
GlobalAfterSkip ==
    /\ pc = "globalAfter"
    /\ idx <= Len(globalMiddleware)
    /\ ~globalMiddleware[idx].hasAfter
    /\ idx' = idx + 1
    /\ UNCHANGED <<serviceVars, routerVars, managerVars, pc, req, route, context, cur,
                   routerResult, result, trace>>

\* fault: the after phase unwinds the list from its end
GlobalAfterHook_Reversed(out) ==
    LET at == Len(globalMiddleware) + 1 - idx
    IN  /\ pc = "globalAfter"
        /\ idx <= Len(globalMiddleware)
        /\ globalMiddleware[at].hasAfter
        /\ IF out = "throw"
           THEN /\ Catch(Thrown("globalAfter", at, "hook"),
                         <<Event("globalAfter", at, cur, Thrown("globalAfter", at, "hook"))>>)
                /\ UNCHANGED <<idx, cur>>
           ELSE LET returned == IF out = "same" THEN cur
                                ELSE HookResponse("globalAfter", at)
                IN  /\ cur' = returned
                    /\ idx' = idx + 1
                    /\ trace' = Append(trace, Event("globalAfter", at, cur, returned))
                    /\ UNCHANGED <<pc, result>>
        /\ UNCHANGED <<serviceVars, routerVars, managerVars, req, route, context, routerResult>>

\* executeGlobalAfter: context.response = currentResponse;
\* currentResponse = await middleware.after(context)
GlobalAfterHook(out) ==
    /\ pc = "globalAfter"
    /\ idx <= Len(globalMiddleware)
    /\ globalMiddleware[idx].hasAfter
    /\ IF out = "throw"
       THEN /\ Catch(Thrown("globalAfter", idx, "hook"),
                     <<Event("globalAfter", idx, cur, Thrown("globalAfter", idx, "hook"))>>)
            /\ UNCHANGED <<idx, cur>>
       ELSE LET returned == IF out = "same" THEN cur ELSE HookResponse("globalAfter", idx)
            IN  /\ cur' = returned
                /\ idx' = idx + 1
                /\ trace' = Append(trace, Event("globalAfter", idx, cur, returned))
                /\ UNCHANGED <<pc, result>>
    /\ UNCHANGED <<serviceVars, routerVars, managerVars, req, route, context, routerResult>>

\* executeGlobalAfter returns currentResponse and the fetch callback returns it
GlobalAfterEnd ==
    /\ pc = "globalAfter"
    /\ idx > Len(globalMiddleware)
    /\ result' = cur
    /\ pc' = "done"
    /\ UNCHANGED <<serviceVars, routerVars, managerVars, req, idx, route, context, cur,
                   routerResult, trace>>

\* the response has reached the client; the callback's locals are gone
Respond ==
    /\ pc = "done"
    /\ pc' = "idle"
    /\ req' = NoRequest
    /\ idx' = 0
    /\ route' = NoRoute
    /\ context' = NoContext
    /\ cur' = Null
    /\ routerResult' = Null
    /\ result' = Null
    /\ trace' = <<>>
    /\ UNCHANGED <<serviceVars, routerVars, managerVars>>

(***************************************************************************)
(* Container: bindings, singleton and transient resolution.  A factory is  *)
(* a closure of the application; what it returns or raises is its kind.    *)
(***************************************************************************)
ServiceNames == {"db", "cache"}

\* a factory returns a new object at every invocation, returns the number 0,
\* or raises
FactoryKinds == {"object", "zero", "throws"}

Factory(id, kind) == [id |-> id, kind |-> kind]

\* a value held or returned by the container; factory and n name the factory
\* invocation that created it, name is the name an error carries
ContainerValue(type, factory, n, name) ==
    [type |-> type, factory |-> factory, n |-> n, name |-> name]

Undefined == ContainerValue("undefined", 0, 0, "")
Boolean(b) == ContainerValue("boolean", 0, IF b THEN 1 ELSE 0, "")

\* new Error(`Service "${name}" not found in container`)
ServiceNotFound(name) == ContainerValue("throw", 0, 0, name)

\* the n-th invocation of a factory
Invoke(factory, n) ==
    IF factory.kind = "object" THEN ContainerValue("object", factory.id, n, "")
    ELSE IF factory.kind = "zero" THEN ContainerValue("number", 0, 0, "")
    ELSE ContainerValue("throw", factory.id, n, "")

\* JavaScript truthiness of a container value: !value is false
Truthy(value) ==
    \/ value.type = "object"
    \/ value.type = "number" /\ value.n # 0
    \/ value.type = "boolean" /\ value.n = 1

\* Map.get of a name that is not set
NoBinding ==
    [def |-> FALSE, factory |-> Factory(0, ""), singleton |-> FALSE,
     instance |-> Undefined]

\* fault: set merges into the entry, the instance stays
singleton_KeepsInstance(bs, name, factory) ==
    [bs EXCEPT ![name] = [def |-> TRUE, factory |-> factory, singleton |-> TRUE,
                          instance |-> bs[name].instance]]

singleton(bs, name, factory) ==
    [bs EXCEPT ![name] = [def |-> TRUE, factory |-> factory, singleton |-> TRUE,
                          instance |-> Undefined]]

bind(bs, name, factory) ==
    [bs EXCEPT ![name] = [def |-> TRUE, factory |-> factory, singleton |-> FALSE,
                          instance |-> Undefined]]

\* fault: a transient result is stored and returned again
resolve_CachesTransient(bs, name, n) ==
    LET binding == bs[name]
    IN  IF ~binding.def
        THEN [bindings |-> bs, out |-> ServiceNotFound(name), invoked |-> 0]
        ELSE IF Truthy(binding.instance)
        THEN [bindings |-> bs, out |-> binding.instance, invoked |-> 0]
        ELSE LET r == Invoke(binding.factory, n)
             IN  [bindings |-> IF r.type = "throw" THEN bs
                               ELSE [bs EXCEPT ![name].instance = r],
                  out |-> r, invoked |-> binding.factory.id]

\* fault: a missing name makes a binding and returns undefined
resolve_CreatesMissing(bs, name, n) ==
    LET binding == bs[name]
    IN  IF ~binding.def
        THEN [bindings |-> bind(bs, name, Factory(0, "")), out |-> Undefined,
              invoked |-> 0]
        ELSE IF binding.singleton
        THEN IF ~Truthy(binding.instance)
             THEN LET r == Invoke(binding.factory, n)
                  IN  [bindings |-> IF r.type = "throw" THEN bs
                                    ELSE [bs EXCEPT ![name].instance = r],
                       out |-> r, invoked |-> binding.factory.id]
             ELSE [bindings |-> bs, out |-> binding.instance, invoked |-> 0]
        ELSE [bindings |-> bs, out |-> Invoke(binding.factory, n),
              invoked |-> binding.factory.id]

\* Container.resolve: the bindings afterwards, the value returned or raised
\* and the id of the factory invoked (0 for none); n is the ordinal of the
\* invocation a factory call would be
resolve(bs, name, n) ==
    LET binding == bs[name]
    IN  IF ~binding.def
        THEN [bindings |-> bs, out |-> ServiceNotFound(name), invoked |-> 0]
        ELSE IF binding.singleton
        THEN IF ~Truthy(binding.instance)
             THEN LET r == Invoke(binding.factory, n)
                  IN  [bindings |-> IF r.type = "throw" THEN bs
                                    ELSE [bs EXCEPT ![name].instance = r],
                       out |-> r, invoked |-> binding.factory.id]
             ELSE [bindings |-> bs, out |-> binding.instance, invoked |-> 0]
        ELSE [bindings |-> bs, out |-> Invoke(binding.factory, n),
              invoked |-> binding.factory.id]

has(bs, name) == bs[name].def

forget(bs, name) == [bs EXCEPT ![name] = NoBinding]

\* one entry of the history of the container
ContainerEvent(op, name, factory, invoked, out) ==
    [op |-> op, name |-> name, factory |-> factory, invoked |-> invoked, out |-> out]

\* how often the factory with this id has been invoked
Invocations(id) ==
    Cardinality({i \in 1..Len(containerLog) : containerLog[i].invoked = id})

Singleton(name, kind) ==
    /\ Len(containerLog) < MaxContainerOps
    /\ LET factory == Factory(Len(containerLog) + 1, kind)
       IN  /\ bindings' = singleton(bindings, name, factory)
           /\ containerLog' = Append(containerLog,
                  ContainerEvent("singleton", name, factory.id, 0, Undefined))
    /\ UNCHANGED <<routerVars, managerVars, requestVars, validatorVars, extraVars>>

Bind(name, kind) ==
    /\ Len(containerLog) < MaxContainerOps
    /\ LET factory == Factory(Len(containerLog) + 1, kind)
       IN  /\ bindings' = bind(bindings, name, factory)
           /\ containerLog' = Append(containerLog,
                  ContainerEvent("bind", name, factory.id, 0, Undefined))
    /\ UNCHANGED <<routerVars, managerVars, requestVars, validatorVars, extraVars>>

Resolve(name) ==
    /\ Len(containerLog) < MaxContainerOps
    /\ LET r == resolve(bindings, name, Invocations(bindings[name].factory.id) + 1)
       IN  /\ bindings' = r.bindings
           /\ containerLog' = Append(containerLog,
                  ContainerEvent("resolve", name, 0, r.invoked, r.out))
    /\ UNCHANGED <<routerVars, managerVars, requestVars, validatorVars, extraVars>>

Has(name) ==
    /\ Len(containerLog) < MaxContainerOps
    /\ containerLog' = Append(containerLog,
           ContainerEvent("has", name, 0, 0, Boolean(has(bindings, name))))
    /\ UNCHANGED <<bindings, routerVars, managerVars, requestVars, validatorVars, extraVars>>

Forget(name) ==
    /\ Len(containerLog) < MaxContainerOps
    /\ bindings' = forget(bindings, name)
    /\ containerLog' = Append(containerLog,
           ContainerEvent("forget", name, 0, 0, Undefined))
    /\ UNCHANGED <<routerVars, managerVars, requestVars, validatorVars, extraVars>>

(***************************************************************************)
(* LoggingIntegration                                                      *)
(***************************************************************************)
\* LogLevel, in the order shouldLog ranks the levels
LogLevels == <<"debug", "info", "warn", "error">>

LevelIndex(level) == CHOOSE k \in 1..Len(LogLevels) : LogLevels[k] = level

shouldLog(minLevel, level) == LevelIndex(level) >= LevelIndex(minLevel)

\* new LoggingIntegration(); a destination is known by its registration number
NewLogger == [destinations |-> <<>>, minLevel |-> "debug"]

\* no call of log made yet; attempts is history: the writes made by the call
\* and destinations and enabled what the call found when it started
NoLogCall == [pc |-> "idle", level |-> "", i |-> 0, errors |-> 0, attempts |-> <<>>,
              destinations |-> <<>>, enabled |-> FALSE]

AddDestination ==
    /\ logCall.pc # "writing"
    /\ Len(logger.destinations) < MaxDestinations
    /\ logger' = [logger EXCEPT !.destinations = Append(@, Len(@) + 1)]
    /\ UNCHANGED <<logCall, routerVars, managerVars, requestVars, containerVars,
                   validatorVars, rateVars, instanceVars>>

SetMinLevel(level) ==
    /\ logCall.pc # "writing"
    /\ logger' = [logger EXCEPT !.minLevel = level]
    /\ UNCHANGED <<logCall, routerVars, managerVars, requestVars, containerVars,
                   validatorVars, rateVars, instanceVars>>

\* debug, info, warn, error: log(level, ...) up to the loop over destinations
LogStart(level) ==
    /\ logCall.pc # "writing"
    /\ logCall' = [pc |-> IF shouldLog(logger.minLevel, level) THEN "writing"
                          ELSE "returned",
                   level |-> level, i |-> 1, errors |-> 0, attempts |-> <<>>,
                   destinations |-> logger.destinations,
                   enabled |-> shouldLog(logger.minLevel, level)]
    /\ UNCHANGED <<logger, routerVars, managerVars, requestVars, containerVars,
                   validatorVars, rateVars, instanceVars>>

\* fault: the loop is left at the first write that fails
LogWrite_StopsAtFailure(ok) ==
    /\ logCall.pc = "writing"
    /\ logCall.i <= Len(logger.destinations)
    /\ logCall' = [logCall EXCEPT
                     !.attempts = Append(@, [dest |-> logger.destinations[logCall.i],
                                             ok |-> ok]),
                     !.errors = IF ok THEN @ ELSE @ + 1,
                     !.i = IF ok THEN @ + 1 ELSE Len(logger.destinations) + 1]
    /\ UNCHANGED <<logger, routerVars, managerVars, requestVars, containerVars,
                   validatorVars, rateVars, instanceVars>>

\* one turn of the loop: await dest.write(entry), a failure caught and counted
LogWrite(ok) ==
    /\ logCall.pc = "writing"
    /\ logCall.i <= Len(logger.destinations)
    /\ logCall' = [logCall EXCEPT
                     !.attempts = Append(@, [dest |-> logger.destinations[logCall.i],
                                             ok |-> ok]),
                     !.errors = IF ok THEN @ ELSE @ + 1,
                     !.i = @ + 1]
    /\ UNCHANGED <<logger, routerVars, managerVars, requestVars, containerVars,
                   validatorVars, rateVars, instanceVars>>

\* fault: one failed write is enough to raise
LogEnd_RaisesOnAnyFailure ==
    /\ logCall.pc = "writing"
    /\ logCall.i > Len(logger.destinations)
    /\ logCall' = [logCall EXCEPT
                     !.pc = IF logCall.errors > 0 THEN "raised" ELSE "returned"]
    /\ UNCHANGED <<logger, routerVars, managerVars, requestVars, containerVars,
                   validatorVars, rateVars, instanceVars>>

\* after the loop: throw when every destination failed, return otherwise
LogEnd ==
    /\ logCall.pc = "writing"
    /\ logCall.i > Len(logger.destinations)
    /\ logCall' = [logCall EXCEPT
                     !.pc = IF logCall.errors = Len(logger.destinations)
                                 /\ Len(logger.destinations) > 0
                            THEN "raised" ELSE "returned"]
    /\ UNCHANGED <<logger, routerVars, managerVars, requestVars, containerVars,
                   validatorVars, rateVars, instanceVars>>

NextLogging ==
    \/ AddDestination
    \/ \E level \in {"debug", "info", "warn", "error"} : SetMinLevel(level)
    \/ \E level \in {"debug", "info", "warn", "error"} : LogStart(level)
    \/ \E ok \in BOOLEAN : LogWrite(ok)
    \/ LogEnd

(***************************************************************************)
(* createRateLimitMiddleware                                               *)
(***************************************************************************)
\* what getClientId makes of the headers and the URL of a request
ClientIds == {"a", "b"}

WindowValues == {1, 2}
LimitValues == {1, 2}

NoRateLimit == [created |-> FALSE, windowMs |-> 0, maxRequests |-> 0]

\* clients.get(clientId) of an identifier never seen is undefined
NoRecord == [def |-> FALSE, count |-> 0, resetTime |-> 0]

\* Math.ceil(a / b) for a >= 0
Ceil(a, b) == (a + b - 1) \div b

\* the 429 response of the before hook, message holding the Retry-After header
TooManyRequests(record, at) ==
    [Val("Response", "routeBefore", 0, 429, "application/json", "Too many requests")
        EXCEPT !.message = ToString(Ceil(record.resetTime - at, 1000))]

\* createRateLimitMiddleware(options): the closure over options and clients
createRateLimitMiddleware(windowMs, maxRequests) ==
    /\ ~rateLimit.created
    /\ rateLimit' = [created |-> TRUE, windowMs |-> windowMs, maxRequests |-> maxRequests]
    /\ clients' = [c \in ClientIds |-> NoRecord]
    /\ UNCHANGED <<now, waiting, rateLog, routerVars, managerVars, requestVars,
                   containerVars, validatorVars, loggerVars, instanceVars>>

\* time passes between two turns of the event loop
Tick ==
    /\ rateLimit.created
    /\ now < MaxClock
    /\ now' = now + 1
    /\ UNCHANGED <<rateLimit, clients, waiting, rateLog, routerVars, managerVars,
                   requestVars, containerVars, validatorVars, loggerVars, instanceVars>>

\* a request of the client is being handled and has not reached the hook yet
RateArrive(clientId) ==
    /\ rateLimit.created
    /\ waiting["a"] + waiting["b"] + Len(rateLog) < MaxRateRequests
    /\ waiting' = [waiting EXCEPT ![clientId] = @ + 1]
    /\ UNCHANGED <<rateLimit, clients, now, rateLog, routerVars, managerVars,
                   requestVars, containerVars, validatorVars, loggerVars, instanceVars>>

\* fault: the counter is tested before it is incremented
RateLimitBefore_TestsBeforeIncrement(clientId) ==
    /\ waiting[clientId] > 0
    /\ LET found == clients[clientId]
           fresh == ~found.def \/ now > found.resetTime
           current == IF fresh
                      THEN [def |-> TRUE, count |-> 0,
                            resetTime |-> now + rateLimit.windowMs]
                      ELSE found
           record == [current EXCEPT !.count = @ + 1]
           out == IF current.count > rateLimit.maxRequests
                  THEN TooManyRequests(record, now) ELSE Null
       IN  /\ clients' = [clients EXCEPT ![clientId] = record]
           /\ rateLog' = Append(rateLog, [client |-> clientId, at |-> now,
                                          created |-> fresh, record |-> record,
                                          out |-> out])
    /\ waiting' = [waiting EXCEPT ![clientId] = @ - 1]
    /\ UNCHANGED <<rateLimit, now, routerVars, managerVars, requestVars,
                   containerVars, validatorVars, loggerVars, instanceVars>>

\* before(context): the body has no await, so it runs in one turn: look the
\* record up, replace it when the window has passed, count, test
RateLimitBefore(clientId) ==
    /\ waiting[clientId] > 0
    /\ LET found == clients[clientId]
           fresh == ~found.def \/ now > found.resetTime
           current == IF fresh
                      THEN [def |-> TRUE, count |-> 0,
                            resetTime |-> now + rateLimit.windowMs]
                      ELSE found
           record == [current EXCEPT !.count = @ + 1]
           out == IF record.count > rateLimit.maxRequests
                  THEN TooManyRequests(record, now) ELSE Null
       IN  /\ clients' = [clients EXCEPT ![clientId] = record]
           /\ rateLog' = Append(rateLog, [client |-> clientId, at |-> now,
                                          created |-> fresh, record |-> record,
                                          out |-> out])
    /\ waiting' = [waiting EXCEPT ![clientId] = @ - 1]
    /\ UNCHANGED <<rateLimit, now, routerVars, managerVars, requestVars,
                   containerVars, validatorVars, loggerVars, instanceVars>>

NextRateLimit ==
    \/ \E windowMs \in WindowValues, maxRequests \in LimitValues :
          createRateLimitMiddleware(windowMs, maxRequests)
    \/ Tick
    \/ \E clientId \in ClientIds : RateArrive(clientId)
    \/ \E clientId \in ClientIds : RateLimitBefore(clientId)

(***************************************************************************)
(* Controller instances of the requests in flight                          *)
(***************************************************************************)
InFlightIds == 1..MaxInFlight

\* a request the route handler has not been called for; controller is the
\* position of its instance in controllers, 0 for none
NoFlight == [pc |-> "none", controller |-> 0, hooks |-> FALSE]

\* new ControllerClass(): context is declared and not assigned (0)
NewController == [context |-> 0]

\* the hook that follows ph in Controller.execute
NextHook(ph, hooks) ==
    IF ph = "beforeHandle" THEN "handle"
    ELSE IF ph = "handle" /\ hooks THEN "afterHandle"
    ELSE "done"

\* fault: the route keeps one controller instance for all its requests
ControllerStart_SharedInstance(r, hooks) ==
    /\ inFlight[r].pc = "none"
    /\ \A q \in 1..(r - 1) : inFlight[q].pc # "none"
    /\ LET c == 1
       IN  /\ controllers' = IF controllers = <<>>
                             THEN <<[context |-> r]>>
                             ELSE [controllers EXCEPT ![c].context = r]
           /\ inFlight' = [inFlight EXCEPT ![r] =
                 [pc |-> IF hooks THEN "beforeHandle" ELSE "handle",
                  controller |-> c, hooks |-> hooks]]
    /\ UNCHANGED <<contextReads, routerVars, managerVars, requestVars, containerVars,
                   validatorVars, loggerVars, rateVars>>

\* the handler closure: const controller = new ControllerClass();
\* controller.execute(context) assigns this.context and runs to its first await
ControllerStart(r, hooks) ==
    /\ inFlight[r].pc = "none"
    /\ \A q \in 1..(r - 1) : inFlight[q].pc # "none"
    /\ LET c == Len(controllers) + 1
       IN  /\ controllers' = Append(controllers, [NewController EXCEPT !.context = r])
           /\ inFlight' = [inFlight EXCEPT ![r] =
                 [pc |-> IF hooks THEN "beforeHandle" ELSE "handle",
                  controller |-> c, hooks |-> hooks]]
    /\ UNCHANGED <<contextReads, routerVars, managerVars, requestVars, containerVars,
                   validatorVars, loggerVars, rateVars>>

\* beforeHandle, handle or afterHandle of the request's controller resumes,
\* reads this.context and returns
ControllerHook(r) ==
    /\ inFlight[r].pc \in {"beforeHandle", "handle", "afterHandle"}
    /\ contextReads' = Append(contextReads,
          [request |-> r, phase |-> inFlight[r].pc,
           controller |-> inFlight[r].controller,
           saw |-> controllers[inFlight[r].controller].context])
    /\ inFlight' = [inFlight EXCEPT ![r].pc = NextHook(@, inFlight[r].hooks)]
    /\ UNCHANGED <<controllers, routerVars, managerVars, requestVars, containerVars,
                   validatorVars, loggerVars, rateVars>>

NextInstances ==
    \/ \E r \in InFlightIds, hooks \in BOOLEAN : ControllerStart(r, hooks)
    \/ \E r \in InFlightIds : ControllerHook(r)

\* no rate-limit middleware created and no request in flight
NoTraffic ==
    /\ rateLimit = NoRateLimit
    /\ clients = [c \in ClientIds |-> NoRecord]
    /\ now = 0
    /\ waiting = [c \in ClientIds |-> 0]
    /\ rateLog = <<>>
    /\ controllers = <<>>
    /\ inFlight = [r \in InFlightIds |-> NoFlight]
    /\ contextReads = <<>>

(***************************************************************************)
(* Specifications                                                          *)
(***************************************************************************)
\* the state after new Application()
Init ==
    /\ routes = <<>>
    /\ prefix = EmptyString
    /\ groupOptions = NoOptions
    /\ groupStack = <<>>
    /\ regLog = <<>>
    /\ calls = 0
    /\ globalMiddleware = <<>>
    /\ namedMiddleware = [name \in MiddlewareNames |-> NoMiddleware]
    /\ pc = "idle"
    /\ req = NoRequest
    /\ idx = 0
    /\ route = NoRoute
    /\ context = NoContext
    /\ cur = Null
    /\ routerResult = Null
    /\ result = Null
    /\ trace = <<>>
    /\ bindings = [name \in ServiceNames |-> NoBinding]
    /\ containerLog = <<>>
    /\ validatorInput = NoInput
    /\ validatorOutput = NoOutput
    /\ logger = NewLogger
    /\ logCall = NoLogCall
    /\ NoTraffic

NextRouter ==
    \/ \E p \in GroupPrefixes, options \in OptionValues : GroupEnter(p, options)
    \/ GroupExit
    \/ \E method \in Methods, path \in RoutePaths, options \in OptionValues :
          Register(method, path, "Plain", options)

NextManager ==
    \/ \E kind \in MiddlewareKinds : AddGlobal(kind)
    \/ \E name \in RegisteredNames, kind \in MiddlewareKinds : RegisterNamed(name, kind)

NextRequest ==
    \/ \E request \in Requests : Fetch(request)
    \/ GlobalBeforeSkip
    \/ \E out \in BeforeOutcomes : GlobalBeforeHook(out)
    \/ GlobalBeforeEnd
    \/ RouterMatch
    \/ RouteBeforeMissing
    \/ RouteBeforeSkip
    \/ \E out \in BeforeOutcomes : RouteBeforeHook(out)
    \/ RouteBeforeEnd
    \/ RouteHandler
    \/ \E out \in BeforeOutcomes : BeforeHandle(out)
    \/ \E out \in HandleOutcomes : Handle(out)
    \/ \E out \in AfterOutcomes : AfterHandle(out)
    \/ RouteAfterSkip
    \/ \E out \in AfterOutcomes : RouteAfterHook(out)
    \/ RouteAfterEnd
    \/ GlobalAfterSkip
    \/ \E out \in AfterOutcomes : GlobalAfterHook(out)
    \/ GlobalAfterEnd
    \/ Respond

NextContainer ==
    \/ \E name \in ServiceNames, kind \in FactoryKinds : Singleton(name, kind)
    \/ \E name \in ServiceNames, kind \in FactoryKinds : Bind(name, kind)
    \/ \E name \in ServiceNames : Resolve(name)
    \/ \E name \in ServiceNames : Has(name)
    \/ \E name \in ServiceNames : Forget(name)

\* the validator called again and again with one schema object
NextRepeated == Validate \/ ValidateAgain

Next ==
    \/ NextRouter \/ NextManager \/ NextRequest \/ NextContainer \/ NextRepeated
    \/ NextLogging \/ NextRateLimit \/ NextInstances

Spec == Init /\ [][Next]_vars

\* the router alone: registration and groups
SpecRouter == Init /\ [][NextRouter]_vars

\* registrations and groups, then a request up to the selection of its route
NextRegistry ==
    \/ NextRouter
    \/ Fetch(Request("GET", <<"", "users">>, "", FALSE, NullData))
    \/ GlobalBeforeEnd
    \/ RouterMatch

SpecRegistry == Init /\ [][NextRegistry]_vars

\* the logger alone
SpecLogging == Init /\ [][NextLogging]_vars

SpecRateLimit == Init /\ [][NextRateLimit]_vars

SpecInstances == Init /\ [][NextInstances]_vars

\* the container alone
SpecContainer == Init /\ [][NextContainer]_vars

\* the validator alone, on each data and schema of the sets above
InitValidator ==
    /\ routes = <<>>
    /\ prefix = EmptyString
    /\ groupOptions = NoOptions
    /\ groupStack = <<>>
    /\ regLog = <<>>
    /\ calls = 0
    /\ globalMiddleware = <<>>
    /\ namedMiddleware = [name \in MiddlewareNames |-> NoMiddleware]
    /\ pc = "idle"
    /\ req = NoRequest
    /\ idx = 0
    /\ route = NoRoute
    /\ context = NoContext
    /\ cur = Null
    /\ routerResult = Null
    /\ result = Null
    /\ trace = <<>>
    /\ bindings = [name \in ServiceNames |-> NoBinding]
    /\ containerLog = <<>>
    /\ validatorInput \in ValidatorInputs
    /\ validatorOutput = NoOutput
    /\ logger = NewLogger
    /\ logCall = NoLogCall
    /\ NoTraffic

NextValidator == Validate

SpecValidator == InitValidator /\ [][NextValidator]_vars

\* the validator called again and again with one schema object
SpecRepeated == InitValidator /\ [][NextRepeated]_vars

\* the registrations an application made before it serves requests:
\*   router.post("/users", Hooked, {middleware:["a","b"], validation:S1})
\*   router.get("/users", Hooked, {middleware:["b","a"]})
\*   router.get(":id", Plain)
ServedRegistrations ==
    <<[method |-> "POST", path |-> <<"", "users">>, ControllerClass |-> "Hooked",
       options |-> Options(TRUE, <<"a", "b">>, "S1")],
      [method |-> "GET", path |-> <<"", "users">>, ControllerClass |-> "Hooked",
       options |-> Options(TRUE, <<"b", "a">>, NoSchema)],
      [method |-> "GET", path |-> <<":id">>, ControllerClass |-> "Plain",
       options |-> NoOptions]>>

RECURSIVE RegisterAll(_, _)
RegisterAll(rs, registrations) ==
    IF registrations = <<>> THEN rs
    ELSE LET c == Head(registrations)
         IN  RegisterAll(registerController(rs, EmptyString, NoOptions, c.method,
                                            c.path, c.ControllerClass, c.options),
                         Tail(registrations))

\* the state after new Application() and the registrations above
InitDispatch ==
    /\ routes = RegisterAll(<<>>, ServedRegistrations)
    /\ prefix = EmptyString
    /\ groupOptions = NoOptions
    /\ groupStack = <<>>
    /\ regLog = [i \in 1..Len(ServedRegistrations) |->
                    [enclosing |-> <<>>,
                     method |-> ServedRegistrations[i].method,
                     path |-> ServedRegistrations[i].path,
                     ControllerClass |-> ServedRegistrations[i].ControllerClass,
                     options |-> ServedRegistrations[i].options]]
    /\ calls = Len(ServedRegistrations)
    /\ globalMiddleware = <<>>
    /\ namedMiddleware = [name \in MiddlewareNames |-> NoMiddleware]
    /\ pc = "idle"
    /\ req = NoRequest
    /\ idx = 0
    /\ route = NoRoute
    /\ context = NoContext
    /\ cur = Null
    /\ routerResult = Null
    /\ result = Null
    /\ trace = <<>>
    /\ bindings = [name \in ServiceNames |-> NoBinding]
    /\ containerLog = <<>>
    /\ validatorInput = NoInput
    /\ validatorOutput = NoOutput
    /\ logger = NewLogger
    /\ logCall = NoLogCall
    /\ NoTraffic

NextDispatch == NextManager \/ NextRequest

\* paths as written in a registration: "test", "/test/", "/:id/v1.0", "//"
RawPaths ==
    UNION {[1..n -> {"", "test", "v1.0", ":id", ":name"}] : n \in 1..MaxSegments}

\* requests whose URL has the pathname "/", "/test", "//test/", "/v1x0"
PathRequests ==
    {Request(method, <<"">> \o p, "", FALSE, NullData) :
        method \in {"GET", "POST"},
        p \in UNION {[1..n -> {"", "test", "v1x0"}] : n \in 1..MaxSegments}}

\* the state after new Application() and router.get(path, Plain)
InitMatcher ==
    /\ \E path \in RawPaths :
          /\ routes = registerController(<<>>, EmptyString, NoOptions, "GET", path,
                                         "Plain", NoOptions)
          /\ regLog = <<[enclosing |-> <<>>, method |-> "GET", path |-> path,
                         ControllerClass |-> "Plain", options |-> NoOptions]>>
    /\ prefix = EmptyString
    /\ groupOptions = NoOptions
    /\ groupStack = <<>>
    /\ calls = 1
    /\ globalMiddleware = <<>>
    /\ namedMiddleware = [name \in MiddlewareNames |-> NoMiddleware]
    /\ pc = "idle"
    /\ req = NoRequest
    /\ idx = 0
    /\ route = NoRoute
    /\ context = NoContext
    /\ cur = Null
    /\ routerResult = Null
    /\ result = Null
    /\ trace = <<>>
    /\ bindings = [name \in ServiceNames |-> NoBinding]
    /\ containerLog = <<>>
    /\ validatorInput = NoInput
    /\ validatorOutput = NoOutput
    /\ logger = NewLogger
    /\ logCall = NoLogCall
    /\ NoTraffic

NextMatcher ==
    \/ \E request \in PathRequests : Fetch(request)
    \/ GlobalBeforeEnd
    \/ RouterMatch

\* one route and one request, up to the selection of the route
SpecMatcher == InitMatcher /\ [][NextMatcher]_vars

\* middleware registration and request dispatch over the routes above
SpecDispatch == InitDispatch /\ [][NextDispatch]_vars

(***************************************************************************)
(* Reading the history of the request in flight                            *)
(***************************************************************************)
TraceIdx == 1..Len(trace)

\* hook invocations of a phase (position 0 marks the entry of the phase)
HookEvents(ph) == {k \in TraceIdx : trace[k].ph = ph /\ trace[k].i >= 1}

PhaseEntered(ph) == \E k \in TraceIdx : trace[k].ph = ph

Raised(ph) == \E k \in TraceIdx : trace[k].ph = ph /\ trace[k].out.type = "throw"

\* the phases in the order they were entered, a phase re-entered appearing twice
PhasesOf(tr) ==
    LET starts == SelectSeq([k \in 1..Len(tr) |-> k],
                            LAMBDA k : k = 1 \/ tr[k].ph # tr[k - 1].ph)
    IN  [j \in 1..Len(starts) |-> tr[starts[j]].ph]

IsPrefix(s, t) == Len(s) <= Len(t) /\ \A k \in 1..Len(s) : s[k] = t[k]

\* what a phase that threads a response has produced so far
LastOut(ph) ==
    LET last == CHOOSE k \in TraceIdx :
                    trace[k].ph = ph /\ \A j \in TraceIdx : trace[j].ph = ph => j <= k
    IN  IF trace[last].i = 0 THEN trace[last].arg ELSE trace[last].out

Matches(r, request) ==
    r.method = request.method /\ PatternTest(r.pattern, normalizePath(request.pathname))

(***************************************************************************)
(* C1: a request that matches a schema-bound route, with no before hook    *)
(* returning a response, validation passing and nothing raising, goes      *)
(* through the phases in this order, each entered once: global before,     *)
(* route match and context, route before, validation, beforeHandle,        *)
(* handle, afterHandle, route after, global after (beforeHandle and        *)
(* afterHandle when the controller class defines them).                    *)
(***************************************************************************)
PhaseOrder(ControllerClass) ==
    <<"globalBefore", "match", "routeBefore", "validate">>
        \o (IF HasBeforeHandle(ControllerClass) THEN <<"beforeHandle">> ELSE <<>>)
        \o <<"handle">>
        \o (IF HasAfterHandle(ControllerClass) THEN <<"afterHandle">> ELSE <<>>)
        \o <<"routeAfter", "globalAfter">>

\* nothing so far has cut the request short
Undisturbed ==
    \A k \in TraceIdx :
        /\ trace[k].out.type # "throw"
        /\ trace[k].ph \in {"globalBefore", "routeBefore", "beforeHandle", "match", "validate"}
              => trace[k].out = Null

SchemaBound == route # NoRoute /\ route.handler.validation # NoSchema

C1_PhaseOrder ==
    (pc # "idle" /\ Undisturbed /\ (route = NoRoute \/ SchemaBound)) =>
        /\ IsPrefix(PhasesOf(trace), PhaseOrder(route.handler.ControllerClass))
        /\ pc = "done" => PhasesOf(trace) = PhaseOrder(route.handler.ControllerClass)

C1_Witness ==
    /\ pc = "done"
    /\ Undisturbed
    /\ SchemaBound
    /\ HasBeforeHandle(route.handler.ControllerClass)
    /\ HasAfterHandle(route.handler.ControllerClass)
    /\ Cardinality(HookEvents("globalBefore")) = 2
    /\ Cardinality(HookEvents("routeBefore")) = 2
    /\ Cardinality(HookEvents("routeAfter")) = 2
    /\ Cardinality(HookEvents("globalAfter")) = 2
    /\ result.status = 200

(***************************************************************************)
(* C2: once a global before hook has returned a response, nothing else     *)
(* runs for the request (no global before hook, no route lookup, no route  *)
(* hook, no validation, no controller hook, no after hook) and the client  *)
(* receives exactly that response.                                         *)
(***************************************************************************)
C2_GlobalShortCircuit ==
    \A k \in TraceIdx :
        (trace[k].ph = "globalBefore" /\ IsResponse(trace[k].out)) =>
            /\ k = Len(trace)
            /\ pc = "done"
            /\ result = trace[k].out
            /\ route = NoRoute
            /\ routerResult = Null

C2_Witness ==
    /\ pc = "done"
    /\ Len(globalMiddleware) = 2
    /\ globalMiddleware[2].hasBefore
    /\ globalMiddleware[1].hasAfter
    /\ globalMiddleware[2].hasAfter
    /\ Matches(routes[1], req)
    /\ \E k \in TraceIdx :
          trace[k].ph = "globalBefore" /\ trace[k].i = 1 /\ IsResponse(trace[k].out)

C4_RouteShortCircuit ==
    \A k \in TraceIdx :
        (trace[k].ph = "routeBefore" /\ IsResponse(trace[k].out)) =>
            /\ routerResult = trace[k].out
            /\ \A j \in TraceIdx : j > k => trace[j].ph = "globalAfter"

C4_Witness ==
    /\ pc = "done"
    /\ Len(route.middleware) = 2
    /\ namedMiddleware[route.middleware[2]].hasBefore
    /\ namedMiddleware[route.middleware[1]].hasAfter
    /\ namedMiddleware[route.middleware[2]].hasAfter
    /\ \E k \in TraceIdx :
          trace[k].ph = "routeBefore" /\ trace[k].i = 1 /\ IsResponse(trace[k].out)

C6_Threading ==
    /\ \A k \in HookEvents("globalAfter") \cup HookEvents("routeAfter") :
          /\ k > 1
          /\ trace[k - 1].ph = trace[k].ph
          /\ trace[k].arg = IF trace[k - 1].i = 0 THEN trace[k - 1].arg
                            ELSE trace[k - 1].out
    /\ (PhaseEntered("routeAfter") /\ IsResponse(routerResult)) =>
          routerResult = LastOut("routeAfter")
    /\ (PhaseEntered("globalAfter") /\ pc = "done" /\ ~Raised("globalAfter")) =>
          result = LastOut("globalAfter")

C6_Witness ==
    /\ pc = "done"
    /\ Cardinality(HookEvents("globalAfter")) = 2
    /\ Cardinality(HookEvents("routeAfter")) = 2
    /\ \E k \in HookEvents("globalAfter") :
          trace[k].i = 1 /\ trace[k].out # trace[k].arg /\ result = trace[k].out
    /\ \E k \in HookEvents("routeAfter") :
          trace[k].i = 1 /\ trace[k].out # trace[k].arg /\ routerResult = trace[k].out

(***************************************************************************)
(* C7: executeRouteBefore fails with the not-found error carrying the      *)
(* missing name whenever the route's list contains an unregistered name,   *)
(* wherever the name is and whatever the hooks before it return.           *)
(* As stated this fails: names are resolved one by one inside the loop, so *)
(* a before hook that returns a response (or raises) ends the phase before *)
(* a later unregistered name is looked up.                                 *)
(***************************************************************************)
MissingPositions ==
    {m \in 1..Len(route.middleware) : ~namedMiddleware[route.middleware[m]].def}

RouteBeforeOver == route # NoRoute /\ pc # "routeBefore"

C7_MissingNameAlwaysFails ==
    (RouteBeforeOver /\ MissingPositions # {}) =>
        \E k \in HookEvents("routeBefore"), m \in MissingPositions :
            /\ trace[k].out.type = "throw"
            /\ trace[k].out.message = route.middleware[m]

(***************************************************************************)
(* C7 as amended: executeRouteBefore fails with the not-found error        *)
(* carrying the first unregistered name of the list whenever no before     *)
(* hook of a name listed before it returns a response or raises; the       *)
(* failure leaves Router.handle and the client gets the 500 response       *)
(* carrying it.                                                            *)
(***************************************************************************)
FirstMissing == CHOOSE m \in MissingPositions : \A n \in MissingPositions : m <= n

C7_FirstMissingNameFails ==
    (/\ RouteBeforeOver
     /\ MissingPositions # {}
     /\ \A k \in HookEvents("routeBefore") :
            trace[k].i < FirstMissing => trace[k].out = Null) =>
        LET error == Thrown("routeBefore", FirstMissing, route.middleware[FirstMissing])
        IN  /\ trace[Len(trace)] = Event("routeBefore", FirstMissing, Null, error)
            /\ routerResult = error
            /\ result = InternalServerError(error)
            /\ pc = "done"

C7_Witness ==
    /\ pc = "done"
    /\ MissingPositions = {2}
    /\ namedMiddleware[route.middleware[1]].hasBefore
    /\ \E k \in HookEvents("routeBefore") : trace[k].i = 1 /\ trace[k].out = Null
    /\ result.status = 500
    /\ result.message = route.middleware[2]

(***************************************************************************)
(* What the registrations asked for, read from their arguments             *)
(***************************************************************************)
RECURSIVE ConcatAll(_)
ConcatAll(seqs) ==
    IF seqs = <<>> THEN <<>> ELSE Head(seqs) \o ConcatAll(Tail(seqs))

\* middleware lists of the enclosing groups, outermost first, then the route's
ComposedMiddleware(entry) ==
    ConcatAll([i \in 1..Len(entry.enclosing) |-> MiddlewareOf(entry.enclosing[i].options)])
        \o MiddlewareOf(entry.options)

\* the enclosing prefixes and the route path, joined and in canonical form
ComposedPath(entry) ==
    normalizePath(ConcatAll([i \in 1..Len(entry.enclosing) |-> entry.enclosing[i].prefix])
                    \o entry.path)

\* the schema of the innermost enclosing group that declares one
RECURSIVE InheritedValidation(_)
InheritedValidation(enclosing) ==
    IF enclosing = <<>> THEN NoSchema
    ELSE IF ValidationOf(enclosing[Len(enclosing)].options) # NoSchema
         THEN ValidationOf(enclosing[Len(enclosing)].options)
         ELSE InheritedValidation(SubSeq(enclosing, 1, Len(enclosing) - 1))

(***************************************************************************)
(* C8: a route registered inside nested groups has as middleware list the  *)
(* lists of all enclosing groups, outermost first, followed by its own,    *)
(* and as path the enclosing prefixes followed by its own path.            *)
(* The router fails this: Router.group replaces the ambient options by the *)
(* inner group's, so only the innermost group's list reaches the route.    *)
(***************************************************************************)
C8_NestedGroupComposition ==
    \A k \in 1..Len(routes) :
        /\ routes[k].middleware = ComposedMiddleware(regLog[k])
        /\ routes[k].path = ComposedPath(regLog[k])

(***************************************************************************)
(* C9: the schema of a route is its own when it declares one, otherwise    *)
(* the schema of the innermost enclosing group that declares one.          *)
(* The router fails this: an inner group without a schema hides the schema *)
(* of the groups around it.                                                *)
(***************************************************************************)
C9_SchemaInheritance ==
    \A k \in 1..Len(routes) :
        routes[k].handler.validation =
            IF ValidationOf(regLog[k].options) # NoSchema
            THEN ValidationOf(regLog[k].options)
            ELSE InheritedValidation(regLog[k].enclosing)

(***************************************************************************)
(* C10: the route selected for a request is the first registered route     *)
(* whose method equals the request's and whose pattern matches its path,   *)
(* whatever matching routes were registered after it.                      *)
(***************************************************************************)
C10_FirstRegisteredWins ==
    \A k \in TraceIdx :
        (trace[k].ph = "match" /\ trace[k].out = Null) =>
            /\ trace[k].i \in 1..Len(routes)
            /\ route = routes[trace[k].i]
            /\ Matches(routes[trace[k].i], req)
            /\ \A j \in 1..(trace[k].i - 1) : ~Matches(routes[j], req)

C10_Witness ==
    /\ route # NoRoute
    /\ \E j, k \in 1..Len(routes) :
          /\ j < k
          /\ Matches(routes[j], req)
          /\ Matches(routes[k], req)
          /\ route = routes[j]
          /\ route # routes[k]

(***************************************************************************)
(* Reading the history of the container                                    *)
(***************************************************************************)
\* the last call before call j that set or removed the name, 0 for none
LastChange(log, name, j) ==
    LET changes == {i \in 1..(j - 1) :
                        /\ log[i].name = name
                        /\ log[i].op \in {"singleton", "bind", "forget"}}
    IN  IF changes = {} THEN 0
        ELSE CHOOSE i \in changes : \A h \in changes : h <= i

\* the name is bound when call j is made
BoundAt(log, name, j) ==
    /\ LastChange(log, name, j) # 0
    /\ log[LastChange(log, name, j)].op \in {"singleton", "bind"}

\* the resolve calls of the name among calls k+1 .. j
ResolvesIn(log, name, k, j) ==
    {i \in (k + 1)..j : log[i].op = "resolve" /\ log[i].name = name}

FirstOf(S) == CHOOSE i \in S : \A h \in S : i <= h

\* call j resolves a name whose current binding call k registered as op
ResolvesBinding(log, j, k, op) ==
    /\ log[j].op = "resolve"
    /\ k = LastChange(log, log[j].name, j)
    /\ k # 0
    /\ log[k].op = op

(***************************************************************************)
(* C11: for a singleton binding whose factory returns a value (whatever    *)
(* value), across the resolve calls made with no re-registration or        *)
(* removal of the name in between, the factory is invoked exactly once, by *)
(* the first resolve, and every resolve returns the value that invocation  *)
(* returned.                                                               *)
(***************************************************************************)
C11_SingletonInvokedOnce ==
    \A j \in 1..Len(containerLog), k \in 0..Len(containerLog) :
        ResolvesBinding(containerLog, j, k, "singleton") =>
            LET rs == ResolvesIn(containerLog, containerLog[j].name, k, j)
                first == FirstOf(rs)
            IN  containerLog[first].out.type # "throw" =>
                    /\ containerLog[first].invoked = containerLog[k].factory
                    /\ {i \in rs : containerLog[i].invoked # 0} = {first}
                    /\ containerLog[j].out = containerLog[first].out

(***************************************************************************)
(* C12: for a transient binding every resolve call invokes the factory     *)
(* exactly once and returns that invocation's result: N resolve calls      *)
(* cause N invocations of the bound factory, and no resolve returns the    *)
(* object an earlier invocation made.                                      *)
(***************************************************************************)
C12_TransientInvokedPerResolve ==
    \A j \in 1..Len(containerLog), k \in 0..Len(containerLog) :
        ResolvesBinding(containerLog, j, k, "bind") =>
            LET rs == ResolvesIn(containerLog, containerLog[j].name, k, j)
                out == containerLog[j].out
            IN  /\ containerLog[j].invoked = containerLog[k].factory
                /\ out.type \in {"object", "throw"} =>
                      /\ out.factory = containerLog[k].factory
                      /\ out.n = Cardinality(rs)
                /\ \A i \in rs \ {j} :
                      out.type = "object" => containerLog[i].out # out

C12_Witness ==
    \E j \in 1..Len(containerLog), k \in 0..Len(containerLog) :
        /\ ResolvesBinding(containerLog, j, k, "bind")
        /\ Cardinality(ResolvesIn(containerLog, containerLog[j].name, k, j)) >= 2
        /\ containerLog[j].out.type = "object"

(***************************************************************************)
(* C13: registering a name that is already bound replaces the binding: a   *)
(* resolve made afterwards never returns an instance made by the replaced  *)
(* factory and invokes no factory but the newly registered one, which the  *)
(* first resolve after the registration does invoke.                       *)
(***************************************************************************)
C13_RebindReplaces ==
    \A j \in 1..Len(containerLog), k \in 0..Len(containerLog) :
        /\ \E op \in {"singleton", "bind"} : ResolvesBinding(containerLog, j, k, op)
        /\ BoundAt(containerLog, containerLog[j].name, k)
        => LET rs == ResolvesIn(containerLog, containerLog[j].name, k, j)
               out == containerLog[j].out
           IN  /\ containerLog[j].invoked \in {0, containerLog[k].factory}
               /\ containerLog[FirstOf(rs)].invoked = containerLog[k].factory
               /\ out.type \in {"object", "throw"} =>
                     out.factory = containerLog[k].factory

\* a singleton that had been resolved to an object is registered again and
\* resolved
C13_Witness ==
    \E j \in 1..Len(containerLog), k \in 0..Len(containerLog) :
        /\ \E op \in {"singleton", "bind"} : ResolvesBinding(containerLog, j, k, op)
        /\ \E i \in 1..(k - 1), h \in 0..(k - 1) :
              /\ ResolvesBinding(containerLog, i, h, "singleton")
              /\ containerLog[i].name = containerLog[j].name
              /\ containerLog[i].out.type = "object"
              /\ LastChange(containerLog, containerLog[j].name, k) = h

(***************************************************************************)
(* C14: resolve of a name that was never registered, or that was removed   *)
(* with forget, fails with the not-found error carrying the name, invokes  *)
(* no factory and leaves every binding and cached instance as it was;      *)
(* has(name) is false exactly for such names.                              *)
(***************************************************************************)
C14_MissingNameFails ==
    [][Len(containerLog') = Len(containerLog) + 1 =>
          LET j == Len(containerLog')
              e == containerLog'[j]
              bound == BoundAt(containerLog', e.name, j)
          IN  /\ (e.op = "resolve" /\ ~bound) =>
                    /\ e.out = ServiceNotFound(e.name)
                    /\ e.invoked = 0
                    /\ bindings' = bindings
              /\ (e.op = "resolve" /\ bound) => e.out # ServiceNotFound(e.name)
              /\ e.op = "has" => (e.out = Boolean(FALSE) <=> ~bound)]_vars

\* a removed name was resolved,
\* and has was asked about a name that is not bound
C14_Witness ==
    /\ \E j \in 1..Len(containerLog) :
          /\ containerLog[j].op = "resolve"
          /\ LastChange(containerLog, containerLog[j].name, j) # 0
          /\ ~BoundAt(containerLog, containerLog[j].name, j)
          /\ containerLog[j].out = ServiceNotFound(containerLog[j].name)
    /\ \E j \in 1..Len(containerLog) :
          /\ containerLog[j].op = "has"
          /\ ~BoundAt(containerLog, containerLog[j].name, j)

(***************************************************************************)
(* Reading the responses the client gets                                   *)
(***************************************************************************)
ControllerPhases == {"beforeHandle", "handle", "afterHandle"}

\* the discriminator the JSON body of a response carries, "" for none
Discriminator(v) ==
    IF v.ctype # "application/json" THEN ""
    ELSE IF v.kind \in {"Validation failed", "success"} THEN "success"
    ELSE IF v.kind \in {"Not Found", "Internal Server Error"} THEN "error"
    ELSE ""

\* the route handler was called for the request in flight and validated
ValidationEvents == {k \in TraceIdx : trace[k].ph = "validate"}

(***************************************************************************)
(* C15 as stated: on a route with a validation schema, a body that fails   *)
(* validation is answered 422 with {success:false, message:'Validation     *)
(* failed', errors} and beforeHandle, handle and afterHandle are never     *)
(* invoked; a body that passes validation reaches handle.                  *)
(***************************************************************************)
C15_ValidBodyReachesHandle ==
    \A k \in ValidationEvents :
        LET checked == validate(context.body, SchemaOf(route.handler.validation))
        IN  /\ trace[k].out # Null <=> ~checked.valid
            /\ ~checked.valid =>
                  /\ trace[k].out = ValidationFailedResponse(checked.errors)
                  /\ \A j \in TraceIdx : trace[j].ph \notin ControllerPhases
            /\ (checked.valid /\ pc \in {"routeAfter", "globalAfter", "done"}) =>
                  PhaseEntered("handle")

(***************************************************************************)
(* C15 as amended: a body that fails validation is answered 422 with the   *)
(* envelope carrying the validator's errors, and no controller hook is     *)
(* ever invoked for the request; a body that passes validation goes to the *)
(* controller: beforeHandle runs when the class defines it, and handle is  *)
(* invoked unless beforeHandle returned a response or raised.              *)
(***************************************************************************)
C15_InvalidBodyStopsAtValidation ==
    \A k \in ValidationEvents :
        LET checked == validate(context.body, SchemaOf(route.handler.validation))
            ControllerClass == route.handler.ControllerClass
        IN  /\ trace[k].out # Null <=> ~checked.valid
            /\ ~checked.valid =>
                  /\ trace[k].out = ValidationFailedResponse(checked.errors)
                  /\ trace[k].out.status = 422
                  /\ Discriminator(trace[k].out) = "success"
                  /\ trace[k].out.errors # <<>>
                  /\ \A j \in TraceIdx : trace[j].ph \notin ControllerPhases
            /\ checked.valid =>
                  /\ k = Len(trace) =>
                        pc = IF HasBeforeHandle(ControllerClass)
                             THEN "beforeHandle" ELSE "handle"
                  /\ k < Len(trace) =>
                        trace[k + 1].ph = IF HasBeforeHandle(ControllerClass)
                                          THEN "beforeHandle" ELSE "handle"
                  /\ (pc \in {"routeAfter", "globalAfter", "done"}
                        /\ \A j \in TraceIdx :
                              trace[j].ph = "beforeHandle" => trace[j].out = Null)
                     => PhaseEntered("handle")

C15_Witness ==
    /\ pc = "done"
    /\ result.status = 422
    /\ result.errors # <<>>
    /\ \E k \in ValidationEvents : trace[k].out = result

(***************************************************************************)
(* C16 as stated: a request whose method and normalized path match no      *)
(* registered route is answered 404 with {error:'Not Found', path} where   *)
(* path is the requested path, and no route middleware hook, no validation *)
(* and no controller runs for it.                                          *)
(***************************************************************************)
C16_NotFoundCarriesRequestedPath ==
    \A k \in TraceIdx :
        (trace[k].ph = "match" /\ \A j \in 1..Len(routes) : ~Matches(routes[j], req)) =>
            /\ trace[k].out.status = 404
            /\ Discriminator(trace[k].out) = "error"
            /\ trace[k].out.path = req.pathname
            /\ \A j \in TraceIdx : trace[j].ph \in {"globalBefore", "match", "globalAfter"}

(***************************************************************************)
(* C16 as amended: such a request is answered 404 with {error:'Not Found', *)
(* path} where path is the normalized form of the requested path, and no   *)
(* route middleware hook, no validation and no controller runs for it.     *)
(***************************************************************************)
C16_NotFoundCarriesNormalizedPath ==
    \A k \in TraceIdx :
        (trace[k].ph = "match" /\ \A j \in 1..Len(routes) : ~Matches(routes[j], req)) =>
            /\ trace[k].out.type = "Response"
            /\ trace[k].out.status = 404
            /\ Discriminator(trace[k].out) = "error"
            /\ trace[k].out.kind = "Not Found"
            /\ trace[k].out.path = normalizePath(req.pathname)
            /\ routerResult = trace[k].out
            /\ \A j \in TraceIdx : trace[j].ph \in {"globalBefore", "match", "globalAfter"}

C16_Witness ==
    /\ pc = "done"
    /\ \A j \in 1..Len(routes) : ~Matches(routes[j], req)
    /\ result.status = 404
    /\ result.path # req.pathname

(***************************************************************************)
(* C17: a request has no response until the fetch callback returns and     *)
(* then has exactly one; a failure raised by a global before hook, by      *)
(* routing (an unregistered route middleware name included), by a route    *)
(* middleware hook, by the controller or by a global after hook is the     *)
(* last step of the request and the response is the 500 envelope carrying  *)
(* the failure's message.                                                  *)
(***************************************************************************)
C17_FailureBecomes500 ==
    /\ pc = "done" <=> IsResponse(result)
    /\ pc # "done" => result = Null
    /\ \A k \in TraceIdx :
          trace[k].out.type = "throw" =>
              /\ k = Len(trace)
              /\ pc = "done"
              /\ result = InternalServerError(trace[k].out)
              /\ result.status = 500
              /\ Discriminator(result) = "error"

C17_Witness ==
    /\ pc = "done"
    /\ Raised("routeAfter")
    /\ result.status = 500
    /\ result.message = "hook"

(***************************************************************************)
(* C18 as stated: every response the fetch callback returns is a JSON      *)
(* envelope carrying a 'success' or an 'error' discriminator.              *)
(***************************************************************************)
C18_AlwaysEnvelope ==
    pc = "done" => Discriminator(result) # ""

(***************************************************************************)
(* C18 as amended: every response the framework builds itself (validation  *)
(* failure, not found, unhandled failure) is a JSON envelope with a        *)
(* 'success' or an 'error' discriminator and the status 422, 404 or 500;   *)
(* any other response is the one a handler or a middleware hook made.      *)
(***************************************************************************)
C18_FrameworkResponsesAreEnvelopes ==
    pc = "done" =>
        /\ IsResponse(result)
        /\ result.phase = "validate" =>
              result.status = 422 /\ Discriminator(result) = "success"
        /\ result.phase = "match" =>
              result.status = 404 /\ Discriminator(result) = "error"
        /\ result.phase = "catch" =>
              result.status = 500 /\ Discriminator(result) = "error"
        /\ result.phase \notin {"validate", "match", "catch"} =>
              \E k \in TraceIdx :
                  /\ trace[k].i >= 1 \/ trace[k].ph \in ControllerPhases
                  /\ result = toResponse(trace[k].out)

C18_Witness ==
    /\ pc = "done"
    /\ result.phase = "validate"
    /\ PhaseEntered("globalAfter")
    /\ Cardinality(HookEvents("routeAfter")) >= 1

(***************************************************************************)
(* Reading a schema against the data it is applied to                      *)
(***************************************************************************)
\* the fields of a schema and of the nested schemas of the objects that are
\* present in the data, each with its full path, its rule and its value
RECURSIVE FieldsIn(_, _, _)
FieldsIn(schema, props, parentField) ==
    UNION {LET path == IF parentField # "" THEN parentField \o "." \o schema[k].field
                       ELSE schema[k].field
               value == Prop(props, schema[k].field)
           IN  {[path |-> path, rules |-> schema[k].rules, value |-> value]}
               \cup (IF schema[k].rules.type = "object" /\ schema[k].rules.hasSchema
                          /\ value.t = "object"
                     THEN FieldsIn(schema[k].rules.schema, value.props, path)
                     ELSE {}) :
           k \in 1..Len(schema)}

InputFields ==
    FieldsIn(validatorInput.schema,
             [k \in 1..Len(validatorInput.schema) |->
                 [key |-> validatorInput.schema[k].field,
                  value |-> validatorInput.data.fields[validatorInput.schema[k].field]]],
             "")

\* the errors validate reported that a field's own rules produced
ErrorsOf(path) ==
    {i \in 1..Len(validatorOutput.errors) : validatorOutput.errors[i].origin = path}

(***************************************************************************)
(* C19: for a field marked required whose value is undefined, null or the  *)
(* empty string, at top level or in a nested object that is present in the *)
(* data, validate reports exactly one error for the field, the error       *)
(* carries the field's full path and the message '<path> is required', and *)
(* no other rule of the field (type, bounds, length, pattern, enum,        *)
(* custom) reports an error.                                               *)
(***************************************************************************)
C19_RequiredMissingReportsOnce ==
    validatorOutput.called =>
        \A f \in InputFields :
            (f.rules.required /\ f.value \in {JsUndefined, JsNull, JsString("")}) =>
                /\ Cardinality(ErrorsOf(f.path)) = 1
                /\ \A i \in ErrorsOf(f.path) :
                      /\ validatorOutput.errors[i].field = f.path
                      /\ validatorOutput.errors[i].message = f.path \o " is required"
                /\ ~validatorOutput.valid

\* a required nested field that declares every other rule is present as null
C19_Witness ==
    /\ validatorOutput.called
    /\ \E f \in InputFields :
          /\ f.path = "profile.contact.phone"
          /\ f.rules.required
          /\ f.rules.hasPattern
          /\ f.rules.type = "number"
          /\ f.value = JsNull
          /\ Cardinality(ErrorsOf(f.path)) = 1

(***************************************************************************)
(* C20: for a field that is not required and whose value is undefined or   *)
(* null, validate reports no error, whatever type, bounds, length,         *)
(* pattern, enum, custom or nested-schema rules the field declares.        *)
(***************************************************************************)
C20_OptionalAbsentReportsNothing ==
    validatorOutput.called =>
        \A f \in InputFields :
            (~f.rules.required /\ f.value \in {JsUndefined, JsNull}) =>
                ErrorsOf(f.path) = {}

\* an optional field declaring a type and every other rule is null, and so
\* is an optional object with a nested schema whose field is required
C20_Witness ==
    /\ validatorOutput.called
    /\ \E f \in InputFields :
          /\ f.path = "name"
          /\ ~f.rules.required
          /\ f.rules.type = "string"
          /\ f.rules.hasEnum
          /\ f.rules.hasCustom
          /\ f.value = JsNull
    /\ \E f \in InputFields :
          /\ f.path = "profile"
          /\ ~f.rules.required
          /\ f.rules.schema[1].rules.required
          /\ f.value = JsNull
    /\ validatorOutput.valid

(***************************************************************************)
(* C21: every error validate produces for a field nested inside object     *)
(* schemas carries the full dotted path of the field, whatever rule        *)
(* failed: a pattern failure on phone under profile.contact is reported    *)
(* with field 'profile.contact.phone'.                                     *)
(***************************************************************************)
C21_NestedErrorsCarryFullPath ==
    validatorOutput.called =>
        \A i \in 1..Len(validatorOutput.errors) :
            validatorOutput.errors[i].field = validatorOutput.errors[i].origin

(***************************************************************************)
(* Reading a rule against a value                                          *)
(***************************************************************************)
\* typeof / Array.isArray of the value is what the declared type asks for
TypeSatisfied(value, type) == value.t = type

Provided(value) == value \notin {JsUndefined, JsNull, JsString("")}

\* how many of the bounds, length, pattern, enum and custom rules of a field
\* the value fails
FailedRules(rules, value) ==
    LET length == IF value.t = "string" THEN Len(value.s) ELSE Len(value.props)
        failed ==
          <<value.t = "number" /\ rules.hasMin /\ value.n < rules.min,
            value.t = "number" /\ rules.hasMax /\ value.n > rules.max,
            value.t \in {"string", "array"} /\ rules.hasMinLength
                /\ length < rules.minLength,
            value.t \in {"string", "array"} /\ rules.hasMaxLength
                /\ length > rules.maxLength,
            rules.hasPattern /\ value.t = "string" /\ value.s \notin rules.pattern,
            rules.hasEnum /\ \A k \in 1..Len(rules.enum) : rules.enum[k] # value,
            rules.hasCustom /\ rules.custom # JsBoolean(TRUE)>>
    IN  Cardinality({k \in 1..Len(failed) : failed[k]})

C24_OnlyUndefinedAndNullSkip ==
    validatorOutput.called =>
        \A f \in InputFields :
            ~f.rules.required =>
                /\ f.value \in {JsUndefined, JsNull} => ErrorsOf(f.path) = {}
                /\ (f.value \notin {JsUndefined, JsNull} /\ f.rules.type # ""
                        /\ ~TypeSatisfied(f.value, f.rules.type))
                   => ErrorsOf(f.path) # {}
                /\ (f.value \notin {JsUndefined, JsNull}
                        /\ FailedRules(f.rules, f.value) > 0)
                   => ErrorsOf(f.path) # {}

(***************************************************************************)
(* C24 as amended: for a field that is not required no rule is checked     *)
(* when the value is undefined, null or the empty string; any other value  *)
(* is checked against the declared type and, when it satisfies the type,   *)
(* against each of the bounds, length, pattern, enum and custom rules,     *)
(* every failed rule reporting one error.                                  *)
(***************************************************************************)
C24_NotProvidedValuesSkip ==
    validatorOutput.called =>
        \A f \in InputFields :
            ~f.rules.required =>
                Cardinality(ErrorsOf(f.path)) =
                    IF ~Provided(f.value) THEN 0
                    ELSE IF f.rules.type # "" /\ ~TypeSatisfied(f.value, f.rules.type)
                    THEN 1
                    ELSE FailedRules(f.rules, f.value)

\* an optional field that declares a type and every other rule holds the
\* empty string, and another holds a string that fails several rules
C24_Witness ==
    /\ validatorOutput.called
    /\ \E f \in InputFields :
          /\ ~f.rules.required
          /\ f.rules.type = "number"
          /\ f.rules.hasCustom
          /\ f.value = JsString("")
    /\ \E f \in InputFields :
          /\ ~f.rules.required
          /\ f.rules.type = "string"
          /\ f.value = JsString("ab")
          /\ Cardinality(ErrorsOf(f.path)) >= 3

(***************************************************************************)
(* C22: for a field of type array with an element schema, validate checks  *)
(* every element against the schema and labels each error                  *)
(* field[index].subfield: an element that is an object without the         *)
(* required name of the element schema is reported exactly once, with      *)
(* field 'items[index].name'.                                              *)
(***************************************************************************)
C22_ArrayElementsChecked ==
    validatorOutput.called =>
        \A f \in InputFields :
            (f.rules.type = "array" /\ f.rules.hasSchema /\ f.value.t = "array") =>
                \A i \in 1..Len(f.value.props) : \A k \in 1..Len(f.rules.schema) :
                    LET item == f.value.props[i]
                        sub == f.rules.schema[k]
                        label == f.path \o "[" \o item.key \o "]." \o sub.field
                    IN  (item.value.t = "object" /\ sub.rules.required
                            /\ Prop(item.value.props, sub.field) = JsUndefined)
                        => Cardinality({j \in 1..Len(validatorOutput.errors) :
                                validatorOutput.errors[j].field = label}) = 1

(***************************************************************************)
(* C25: validate is pure: a call changes neither the data nor the schema   *)
(* (the state of the pattern objects of the schema included), and a call   *)
(* with the same data and schema as the call before returns the same valid *)
(* flag and the same error list.                                           *)
(***************************************************************************)
C25_ValidateIsPure ==
    [][/\ validatorInput' = validatorInput
       /\ validatorOutput.called =>
              /\ validatorOutput'.valid = validatorOutput.valid
              /\ validatorOutput'.errors = validatorOutput.errors]_vars

(***************************************************************************)
(* Reading the controller's part of a request's history                    *)
(***************************************************************************)
EventsOf(ph) == {k \in TraceIdx : trace[k].ph = ph}

\* the response executeRouteAfter was entered with: what the route handler
\* returned, as Router.toResponse converted it
EntersRouteAfterWith(k, res) ==
    k < Len(trace) /\ trace[k + 1] = Event("routeAfter", 0, toResponse(res), Null)

(***************************************************************************)
(* C26: when beforeHandle returns a response, handle and afterHandle are   *)
(* never invoked and execute returns exactly that response; when           *)
(* beforeHandle returns nothing, handle is invoked exactly once, next      *)
(* after it.                                                               *)
(***************************************************************************)
C26_BeforeHandleShortCircuits ==
    \A k \in EventsOf("beforeHandle") :
        /\ Cardinality(EventsOf("beforeHandle")) = 1
        /\ IsResponse(trace[k].out) =>
              /\ EventsOf("handle") = {} /\ EventsOf("afterHandle") = {}
              /\ pc \notin {"handle", "afterHandle"}
              /\ EntersRouteAfterWith(k, trace[k].out)
              /\ trace[k + 1].arg = trace[k].out
        /\ trace[k].out = Null =>
              IF pc = "handle" THEN k = Len(trace) /\ EventsOf("handle") = {}
              ELSE EventsOf("handle") = {k + 1}

\* a request was answered with the response its controller's beforeHandle
\* returned, and no middleware replaced it
C26_Witness ==
    /\ pc = "done"
    /\ \E k \in EventsOf("beforeHandle") : IsResponse(trace[k].out)
    /\ result = HookResponse("beforeHandle", 0)

(***************************************************************************)
(* C27: execute returns what afterHandle returned for the result of handle *)
(* when the controller defines afterHandle, and the unmodified result of   *)
(* handle when it does not; a response object handle returned and no       *)
(* afterHandle replaced reaches the route-after phase as that same object. *)
(***************************************************************************)
C27_AfterHandleOrIdentity ==
    /\ \A k \in EventsOf("handle") :
          (trace[k].out.type # "throw" /\ pc # "afterHandle") =>
              IF HasAfterHandle(route.handler.ControllerClass)
              THEN /\ EventsOf("afterHandle") = {k + 1}
                   /\ trace[k + 1].arg = trace[k].out
              ELSE /\ EventsOf("afterHandle") = {}
                   /\ EntersRouteAfterWith(k, trace[k].out)
                   /\ IsResponse(trace[k].out) => trace[k + 1].arg = trace[k].out
    /\ \A k \in EventsOf("afterHandle") :
          trace[k].out.type # "throw" =>
              /\ EntersRouteAfterWith(k, trace[k].out)
              /\ IsResponse(trace[k].out) => trace[k + 1].arg = trace[k].out
    /\ pc = "afterHandle" => cur = trace[Len(trace)].out /\ trace[Len(trace)].ph = "handle"

\* a controller's afterHandle replaced the response object handle returned
C27_Witness ==
    /\ pc = "done"
    /\ \E k \in EventsOf("afterHandle") :
          /\ IsResponse(trace[k].arg)
          /\ trace[k].out.type = "object"
          /\ trace[k + 1].arg = toResponse(trace[k].out)

\* a controller without hooks returned a response object, which the client got
C27_PlainWitness ==
    /\ pc = "done"
    /\ ~HasAfterHandle(route.handler.ControllerClass)
    /\ \E k \in EventsOf("handle") : IsResponse(trace[k].out) /\ result = trace[k].out

(***************************************************************************)
(* C28: when parsing the request body fails (malformed JSON under an       *)
(* application/json content type), the body of the request context is the  *)
(* one of a request without a body, the request goes on through the        *)
(* route-before middleware, validation and the handler as that request     *)
(* would, and the parse failure never produces the 500 response.           *)
(***************************************************************************)
C28_ParseFailureReadsAsNoBody ==
    (req.contentType = "application/json" /\ ~req.payload.ok /\ route # NoRoute) =>
        /\ context.body = NullData
        /\ context.body = parseBody([req EXCEPT !.contentType = ""])
        /\ PhaseEntered("routeBefore")
        /\ ~Raised("match")
        /\ \A k \in EventsOf("validate") :
              LET checked == validate(NullData, SchemaOf(route.handler.validation))
              IN  trace[k].out = IF checked.valid THEN Null
                                 ELSE ValidationFailedResponse(checked.errors)
        /\ (pc = "done" /\ result.status = 500) =>
              \E k \in TraceIdx : trace[k].out.type = "throw" /\ trace[k].ph # "match"

\* a POST with malformed JSON reached validation, which rejected the
\* missing fields
C28_Witness ==
    /\ pc = "done"
    /\ req.contentType = "application/json" /\ ~req.payload.ok
    /\ EventsOf("validate") # {}
    /\ result.status = 422

(***************************************************************************)
(* C29: a registered route is selected for a request exactly when the      *)
(* methods are equal and the normalized request path has as many segments  *)
(* as the route's path, each literal segment of the route identical to the *)
(* path segment at its position and each ':name' segment facing a          *)
(* non-empty path segment; the parameters then bind every declared name,   *)
(* in declaration order, to the path segment at its position.              *)
(***************************************************************************)
\* the segments of a path, the root having none
SegmentsOf(path) == SelectSeq(path, NonEmptySegment)

SegmentsAgree(r, path) ==
    /\ Len(SegmentsOf(r.path)) = Len(path)
    /\ \A i \in 1..Len(path) :
          IF IsParam(SegmentsOf(r.path)[i]) THEN path[i] # ""
          ELSE SegmentsOf(r.path)[i] = path[i]

C29_SelectedWhenSegmentsAgree ==
    (pc \notin {"idle", "globalBefore", "match"}) =>
        LET path == SegmentsOf(req.pathname)
            agreeing == {i \in 1..Len(routes) :
                            routes[i].method = req.method /\ SegmentsAgree(routes[i], path)}
        IN  /\ route = NoRoute <=> agreeing = {}
            /\ route # NoRoute =>
                  /\ route \in {routes[i] : i \in agreeing}
                  /\ LET segments == SegmentsOf(route.path)
                         positions == SelectSeq([i \in 1..Len(segments) |-> i],
                                                LAMBDA i : IsParam(segments[i]))
                     IN  /\ Len(context.params) = Len(positions)
                         /\ \A k \in 1..Len(positions) :
                               /\ context.params[k].name = segments[positions[k]]
                               /\ context.params[k].value = path[positions[k]]

\* a route with two parameters was selected and both were bound
C29_SelectedWitness ==
    /\ pc = "routeBefore"
    /\ Len(context.params) = 2
    /\ context.params[1].name # context.params[2].name

(***************************************************************************)
(* C30: path normalization yields one canonical form: the result starts    *)
(* with a single separator, contains no empty segment and has no trailing  *)
(* separator (the root excepted); the empty path and a path made only of   *)
(* separators normalize to the root; normalizing twice gives what          *)
(* normalizing once gives, so routes registered as 'test', '/test' and     *)
(* '/test/' have the same path.                                            *)
(***************************************************************************)
Canonical(path) ==
    \/ path = Root
    \/ /\ Len(path) >= 2
       /\ path[1] = ""
       /\ \A i \in 2..Len(path) : path[i] # ""

NormalizedFrom(raw, path) ==
    /\ Canonical(path)
    /\ normalizePath(path) = path
    /\ (\A i \in 1..Len(raw) : raw[i] = "") => path = Root
    /\ raw \in {<<"test">>, <<"", "test">>, <<"", "test", "">>} => path = <<"", "test">>
    /\ Tail(path) = SelectSeq(raw, NonEmptySegment) \/ path = Root

C30_NormalizationIsCanonical ==
    /\ \A i \in 1..Len(routes) : NormalizedFrom(regLog[i].path, routes[i].path)
    /\ (pc \notin {"idle", "globalBefore", "match"} /\ route = NoRoute) =>
          NormalizedFrom(req.pathname, routerResult.path)

\* the route was registered as "//" and the request for "/test//" was
\* answered 404 with the path "/test"
C30_Witness ==
    /\ regLog[1].path = <<"", "", "">>
    /\ routes[1].path = Root
    /\ req.pathname = <<"", "test", "", "">>
    /\ pc = "globalAfter"
    /\ routerResult.status = 404
    /\ routerResult.path = <<"", "test">>

(***************************************************************************)
(* C31: when a controller defines a schema property, the request body is   *)
(* validated against it before handle is called; when that validation      *)
(* fails a 422 response is returned and handle is not called.              *)
(***************************************************************************)
C31_ControllerSchemaValidated ==
    LET schema == SchemaProperty(route.handler.ControllerClass)
        failed == /\ route # NoRoute
                  /\ schema # NoSchema
                  /\ ~validate(context.body, SchemaOf(schema)).valid
    IN  failed => EventsOf("handle") = {} /\ pc # "handle"

(***************************************************************************)
(* C32: a route registered directly inside one group has as middleware     *)
(* list the group's list followed by its own (the group's list when the    *)
(* route declares none, the route's when the group declares none), and a   *)
(* schema declared on the route replaces the group's.                      *)
(***************************************************************************)
C32_OneGroupComposition ==
    \A k \in 1..Len(routes) :
        Len(regLog[k].enclosing) = 1 =>
            LET group == regLog[k].enclosing[1].options
                own == regLog[k].options
            IN  /\ routes[k].middleware = MiddlewareOf(group) \o MiddlewareOf(own)
                /\ MiddlewareOf(own) = <<>> => routes[k].middleware = MiddlewareOf(group)
                /\ MiddlewareOf(group) = <<>> => routes[k].middleware = MiddlewareOf(own)
                /\ ValidationOf(own) # NoSchema =>
                      routes[k].handler.validation = ValidationOf(own)

\* a group with middleware a and schema S1 holds a route with middleware c
\* and schema S2
C32_Witness ==
    \E k \in 1..Len(routes) :
        /\ Len(regLog[k].enclosing) = 1
        /\ regLog[k].enclosing[1].options = Options(TRUE, <<"a">>, "S1")
        /\ regLog[k].options = Options(TRUE, <<"c">>, "S2")
        /\ routes[k].middleware = <<"a", "c">>
        /\ routes[k].handler.validation = "S2"

(***************************************************************************)
(* C33: a log call at an enabled level attempts every registered           *)
(* destination exactly once, in registration order, also after an earlier  *)
(* destination's write has failed, and completes without raising whenever  *)
(* one destination at least accepted the entry.                            *)
(***************************************************************************)
C33_EveryDestinationAttempted ==
    LET attempted == [k \in 1..Len(logCall.attempts) |-> logCall.attempts[k].dest]
    IN  /\ logCall.pc = "writing" =>
              attempted = SubSeq(logCall.destinations, 1, logCall.i - 1)
        /\ (logCall.pc \in {"returned", "raised"} /\ logCall.enabled)
              => attempted = logCall.destinations
        /\ ~logCall.enabled => attempted = <<>>
        /\ (\E k \in 1..Len(logCall.attempts) : logCall.attempts[k].ok)
              => logCall.pc # "raised"

\* the first of three destinations failed, the other two were written and
\* the call returned
C33_Witness ==
    /\ logCall.pc = "returned"
    /\ Len(logCall.attempts) = 3
    /\ ~logCall.attempts[1].ok
    /\ logCall.attempts[2].ok
    /\ ~logCall.attempts[3].ok

C35_RegistryAppendOnly ==
    [][/\ Len(routes') >= Len(routes)
       /\ \A k \in 1..Len(routes) : routes'[k] = routes[k]]_vars

\* a request was dispatched to the second of two routes, one of them
\* registered in a group
C35_Witness ==
    /\ Len(routes) >= 2
    /\ \E k \in 1..Len(routes) : regLog[k].enclosing # <<>>
    /\ pc = "routeBefore"
    /\ route = routes[2]

(***************************************************************************)
(* C36: when group returns, the router's prefix and ambient options are    *)
(* what they were before the call: a route registered after a group        *)
(* carries neither the group's prefix nor its middleware or schema, and a  *)
(* route in a group carries those of the groups open around it only.       *)
(***************************************************************************)
C36_GroupRestoresAmbient ==
    /\ groupStack = <<>> => prefix = EmptyString /\ groupOptions = NoOptions
    /\ groupStack # <<>> => groupOptions = groupStack[Len(groupStack)].options
    /\ pc = "idle" =>
          prefix = IF groupStack = <<>> THEN EmptyString
                   ELSE normalizePath(ConcatAll([i \in 1..Len(groupStack) |->
                                                    groupStack[i].prefix]))
    /\ \A k \in 1..Len(routes) :
          /\ routes[k].path = ComposedPath(regLog[k])
          /\ regLog[k].enclosing = <<>> =>
                /\ routes[k].middleware = MiddlewareOf(regLog[k].options)
                /\ routes[k].handler.validation = ValidationOf(regLog[k].options)
          /\ Len(regLog[k].enclosing) = 1 =>
                routes[k].middleware =
                    MiddlewareOf(regLog[k].enclosing[1].options)
                        \o MiddlewareOf(regLog[k].options)

\* a route without options was registered after a group with middleware and
\* a schema that holds a route
C36_Witness ==
    /\ Len(routes) = 2
    /\ regLog[1].enclosing = <<[prefix |-> <<"", "api">>,
                                options |-> Options(TRUE, <<"a">>, "S1")]>>
    /\ regLog[2].enclosing = <<>>
    /\ regLog[2].options = NoOptions
    /\ routes[2].middleware = <<>>
    /\ routes[2].handler.validation = NoSchema
    /\ prefix = EmptyString

(***************************************************************************)
(* C39: the route-after phase is only ever entered with a name list in     *)
(* which every name is registered, so executeRouteAfter never reads the    *)
(* after hook of a missing middleware.                                     *)
(***************************************************************************)
C39_RouteAfterNamesRegistered ==
    /\ pc = "routeAfter" =>
          \A i \in 1..Len(route.middleware) : namedMiddleware[route.middleware[i]].def
    /\ \A k \in EventsOf("routeAfter") :
          /\ trace[k].out # Thrown("routeAfter", trace[k].i, "TypeError")
          /\ \A i \in 1..Len(route.middleware) :
                namedMiddleware[route.middleware[i]].def

C39_Witness ==
    /\ pc = "routeAfter"
    /\ Len(route.middleware) >= 2
    /\ idx > Len(route.middleware)

\* the validation of the request in flight rejected the body
FailedValidations == {k \in ValidationEvents : trace[k].out # Null}

(***************************************************************************)
(* C40: when validation of a matched route's body fails, every before hook *)
(* of the route has already run and none of them answered the request, and *)
(* the route-after phase is entered with the 422 response: its after hooks *)
(* run, the first of them on the 422 response, before Router.handle        *)
(* returns (a raising after hook ends the phase, as everywhere).           *)
(***************************************************************************)
C40_ValidationBetweenRouteHooks ==
    \A k \in FailedValidations :
        LET names == route.middleware
            WithAfter == {i \in 1..Len(names) : namedMiddleware[names[i]].hasAfter}
        IN  /\ trace[k].out.status = 422
            /\ \A i \in 1..Len(names) :
                  /\ namedMiddleware[names[i]].def
                  /\ namedMiddleware[names[i]].hasBefore =>
                        \E j \in 1..(k - 1) : trace[j] = Event("routeBefore", i, Null, Null)
            /\ \A j \in 1..(k - 1) : trace[j].ph = "routeBefore" => trace[j].out = Null
            /\ EntersRouteAfterWith(k, trace[k].out)
            /\ \A g \in EventsOf("globalAfter") : g > k + 1
            /\ (pc \in {"globalAfter", "done"} /\ ~Raised("routeAfter")) =>
                  \A i \in WithAfter :
                      \E j \in HookEvents("routeAfter") :
                          /\ j > k
                          /\ trace[j].i = i
                          /\ \A g \in EventsOf("globalAfter") : g > j
                          /\ (\A h \in WithAfter : h >= i) => trace[j].arg = trace[k].out

C40_Witness ==
    /\ pc = "done"
    /\ \E k \in FailedValidations :
          /\ \E j \in HookEvents("routeBefore") : j < k
          /\ \E j \in HookEvents("routeAfter") : j > k /\ trace[j].arg = trace[k].out

\* the runs of the before hook that fall in the window of the record the k-th
\* run created: same client, up to that record's reset time
InWindow(k) ==
    {j \in k..Len(rateLog) :
        /\ rateLog[j].client = rateLog[k].client
        /\ rateLog[j].at <= rateLog[k].record.resetTime}

(***************************************************************************)
(* C37: for each client, between the creation of its rate-limit record and *)
(* that record's reset time, the first maxRequests runs of the before hook *)
(* pass and every further run in that window is answered 429, however the  *)
(* requests in flight are interleaved.                                     *)
(***************************************************************************)
C37_AtMostMaxRequestsPerWindow ==
    \A k \in 1..Len(rateLog) :
        rateLog[k].created =>
            /\ Cardinality({j \in InWindow(k) : rateLog[j].out = Null})
                  <= rateLimit.maxRequests
            /\ \A j \in InWindow(k) :
                  IF Cardinality({i \in InWindow(k) : i <= j}) <= rateLimit.maxRequests
                  THEN rateLog[j].out = Null
                  ELSE rateLog[j].out.status = 429

C37_Witness ==
    /\ \E k \in 1..Len(rateLog) :
          /\ rateLog[k].created
          /\ \E j \in InWindow(k) : rateLog[j].out.status = 429
          /\ \E i \in 1..Len(rateLog) :
                i > k /\ rateLog[i].client # rateLog[k].client
                      /\ \E j \in InWindow(k) : j > i
    /\ \E k \in 1..Len(rateLog) : k > 1 /\ rateLog[k].created
          /\ \E i \in 1..(k - 1) : rateLog[i].client = rateLog[k].client

(***************************************************************************)
(* C38: every request that reaches the handler gets a controller instance  *)
(* of its own, and whatever the interleaving of the requests in flight,    *)
(* the context a controller's beforeHandle, handle and afterHandle read is *)
(* the context of that controller's own request.                           *)
(***************************************************************************)
C38_ControllerSeesOwnContext ==
    /\ \A k \in 1..Len(contextReads) : contextReads[k].saw = contextReads[k].request
    /\ \A r, q \in InFlightIds :
          (r # q /\ inFlight[r].controller # 0 /\ inFlight[q].controller # 0)
             => inFlight[r].controller # inFlight[q].controller
    /\ \A r \in InFlightIds :
          inFlight[r].controller # 0 =>
             controllers[inFlight[r].controller].context = r

C38_Witness ==
    \E i, j, k \in 1..Len(contextReads) :
        /\ i < j /\ j < k
        /\ contextReads[i].request = contextReads[k].request
        /\ contextReads[j].request # contextReads[i].request
        /\ contextReads[k].phase = "afterHandle"

====
